---- MODULE Spec2Model ----
(***************************************************************************)
(* Session protocol engine of the benchmark harness                        *)
(* (tools/benchmarker/session_simulator.py): the turn engine `step`, the   *)
(* tool dispatcher and its handlers, the bootstrap compliance flags, the   *)
(* session closer `close_session`, and the process-wide rate limiter.      *)
(*                                                                         *)
(* A session is a stack machine: `step` is re-entered by the handlers'     *)
(* diagnostic turns, so every step invocation is a frame of `stack`.  The  *)
(* engine suspends only at provider calls; one action runs the code from   *)
(* one suspension or handler boundary to the next.                         *)
(***************************************************************************)
EXTENDS Integers, Sequences, FiniteSets, TLC

(***************************************************************************)
(* Bounds of the exploration.                                              *)
(***************************************************************************)
\* top-level step calls the harness makes before it closes the session
MaxHarnessSteps == 2
\* provider responses other than the plain text reply, per behaviour
MaxVaried == 2
\* top-level step calls after which close_session may still be called
MaxStepsBeforeClose == 1
\* provider calls that end in a propagating provider error, per behaviour
MaxProviderErrors == 1
\* nesting depth of step invocations (diagnostic turns inside handlers)
MaxDepth == 3
\* memory-service calls that fail, per behaviour
MaxServiceErrors == 1
\* the longest a provider call takes to fail or succeed, in seconds
MaxLatency == 3
\* create_memory calls of one session
MaxCreates == 2
\* re-issues of one request after pause_turn
MaxReissues == 2
\* sessions of the conversation the ingestor replays
MaxSessions == 2
\* conversation messages of one session
MaxMessages == 2
\* sessions that run as concurrent tasks of one process
NumTasks == 2
\* the last instant of the clock, in seconds
MaxTime == 80
\* provider overloads answered by a back-off, per behaviour
MaxBackoffs == 1

(***************************************************************************)
(* Program constants.                                                      *)
(***************************************************************************)
\* close_session: MAX_TURNS
MAX_TURNS == 10
\* the page size the bootstrap rules mandate for list_entries
MANDATED_LIMIT == 10
\* the page size _exec_list_entries treats as a fatal violation
VIOLATION_LIMIT == 5
\* a reminder replaces the nudge after every third attempt
REMINDER_EVERY == 3
\* re.fullmatch(r"[0-9a-fA-F-]{36}", candidate)
UUID_LEN == 36
\* step(user_text, max_tokens = 2000)
MAX_TOKENS == 2000
\* the budget added for every re-issue after pause_turn
BUDGET_STEP == 512
\* MAX_WAIT_TURNS of process_conversation
MAX_WAIT_TURNS == 6
\* _exec_put_context asks for reasoning only when _message_counter > 5
EMPTY_CTX_MIN_MESSAGES == 5
\* _RATE_LIMIT_INTERVAL, the default, in seconds
RATE_LIMIT_INTERVAL == 15
\* overload_backoff and rate_backoff before the first retry, in seconds
FIRST_BACKOFF == 60
\* "each stored entry must include a <=512-char summary"
SUMMARY_MAX == 512
\* max_deadline = time.monotonic() + 600
DEADLINE_SECONDS == 600
\* min(overload_backoff * 2, 300)
OVERLOAD_CAP == 300
\* min(rate_backoff * 2, 600)
RATE_CAP == 600

(***************************************************************************)
(* Strings.  A text is a sequence of characters; only blanks and two       *)
(* letters are told apart.  A role or a user message is a sequence of      *)
(* tokens, " " and ":" and "_" being tokens of their own, so that          *)
(* str.split, str.replace and str.strip act on them as they do in Python.  *)
(***************************************************************************)
RECURSIVE LStrip(_)
LStrip(s) == IF s # <<>> /\ Head(s) = " " THEN LStrip(Tail(s)) ELSE s

RECURSIVE RStrip(_)
RStrip(s) ==
    IF s # <<>> /\ s[Len(s)] = " " THEN RStrip(SubSeq(s, 1, Len(s) - 1)) ELSE s

\* str.strip()
Strip(s) == RStrip(LStrip(s))

\* str.replace(" ", "_")
ReplaceBlank(s) == [i \in 1..Len(s) |-> IF s[i] = " " THEN "_" ELSE s[i]]

\* index of the first occurrence of token t in s, 0 when there is none
RECURSIVE IndexFrom(_, _, _)
IndexFrom(s, t, i) ==
    IF i > Len(s) THEN 0 ELSE IF s[i] = t THEN i ELSE IndexFrom(s, t, i + 1)

\* s.split(" ", 1)[0]
BeforeFirstBlank(s) ==
    LET i == IndexFrom(s, " ", 1) IN IF i = 0 THEN s ELSE SubSeq(s, 1, i - 1)

\* s.split(":", 1)[1], for an s that holds a ":"
AfterFirstColon(s) ==
    LET i == IndexFrom(s, ":", 1) IN SubSeq(s, i + 1, Len(s))

\* txt.startswith("benchmark_conversation:")
HasConversationPrefix(s) ==
    Len(s) >= 2 /\ s[1] = "benchmark_conversation" /\ s[2] = ":"

SPEAKER_1 == <<"speaker", "_", "1">>
SPEAKER_2 == <<"speaker", "_", "2">>
LEGACY_1 == <<"speaker", " ", "1">>
LEGACY_2 == <<"speaker", " ", "2">>

\* allowed_roles in _exec_add_entry
AllowedRoles == {SPEAKER_1, SPEAKER_2}
\* the legacy spellings _exec_add_entry normalises
LegacyRoles == {LEGACY_1, LEGACY_2}

(***************************************************************************)
(* Identifiers.  A string handed in as memory_id is known by its name, its *)
(* length and whether all its characters are hexadecimal digits or "-".    *)
(***************************************************************************)
NoStr == [s |-> "", len |-> 0, hex |-> TRUE]
UUID_A == [s |-> "mem-a", len |-> 36, hex |-> TRUE]
UUID_B == [s |-> "mem-b", len |-> 36, hex |-> TRUE]
TITLE_CHAT == [s |-> "chat", len |-> 4, hex |-> FALSE]

Titles == {TITLE_CHAT}

\* a title nothing was created under, a title of 36 hexadecimal characters
\* and hyphens, and another identifier of the memory service
TITLE_NOTES == [s |-> "notes", len |-> 5, hex |-> FALSE]
TITLE_HEX == [s |-> "0c0ffee0-0000-0000-0000-00000000cafe", len |-> 36, hex |-> TRUE]
UUID_C == [s |-> "mem-c", len |-> 36, hex |-> TRUE]

\* re.fullmatch(r"[0-9a-fA-F-]{36}", candidate)
LooksLikeUuid(c) == c.len = UUID_LEN /\ c.hex

\* the alias map is not consulted
ResolveMemoryIdNoAlias(candidate, aliases, builder_id) ==
    IF candidate # NoStr /\ LooksLikeUuid(candidate) THEN candidate
    ELSE IF builder_id # NoStr THEN builder_id
    ELSE candidate

\* _resolve_memory_id: the supplied value when it looks like a UUID, else its
\* alias, else the builder's memory_id, else the supplied value itself; NoStr
\* stands for the ValueError raised when nothing is left.
ResolveMemoryId(candidate, aliases, builder_id) ==
    IF candidate # NoStr /\ LooksLikeUuid(candidate) THEN candidate
    ELSE IF candidate # NoStr /\ candidate \in DOMAIN aliases
         THEN aliases[candidate]
    ELSE IF builder_id # NoStr THEN builder_id
    ELSE candidate

(***************************************************************************)
(* Tool invocations, as the model emits them.  summary and raw_entry are   *)
(* lengths (-1: the key is absent), limit is -1 when absent, role and      *)
(* tags_role are token sequences (<<>>: absent), content is a text.        *)
(***************************************************************************)
Call(name) ==
    [name |-> name, memory_id |-> NoStr, summary |-> -1, raw_entry |-> -1,
     role |-> <<>>, tags_role |-> <<>>, limit |-> -1, content |-> <<>>,
     title |-> NoStr, asset |-> ""]

AddEntry(summary, raw, role, tags_role) ==
    [Call("add_entry") EXCEPT !.summary = summary, !.raw_entry = raw,
                              !.role = role, !.tags_role = tags_role]

ListEntries(limit) == [Call("list_entries") EXCEPT !.limit = limit]
PutContext(content) == [Call("put_context") EXCEPT !.content = content]
GetAsset(id) == [Call("get_asset") EXCEPT !.asset = id]
CreateMemory(title) == [Call("create_memory") EXCEPT !.title = title]

\* the names _dispatch_tool_calls has a handler for
HandlerNames ==
    {"add_entry", "put_context", "list_entries", "search_memories",
     "create_memory", "get_context", "get_user", "get_memory",
     "await_consistency", "list_assets", "get_asset"}

(***************************************************************************)
(* Provider responses: content blocks and a stop reason.  A block is a     *)
(* text block, a tool_use block (one call), or a block without a type (the *)
(* test doubles': a text and a list of calls).                             *)
(***************************************************************************)
TextBlock(t) == [type |-> "text", text |-> t, calls |-> <<>>]
ToolUse(c) == [type |-> "tool_use", text |-> <<>>, calls |-> <<c>>]
LegacyBlock(t, cs) == [type |-> "None", text |-> t, calls |-> cs]

Response(blocks, stop) == [blocks |-> blocks, stop |-> stop]

TXT_A == <<"a">>
TXT_B == <<"b">>

\* the reply every turn may get: one non-empty text block
PlainResponse == Response(<<TextBlock(TXT_A)>>, "end_turn")

AddOk == AddEntry(10, 20, SPEAKER_1, <<>>)

VariedResponses ==
    { Response(<<>>, "end_turn"),
      Response(<<TextBlock(<<" ">>)>>, "end_turn"),
      Response(<<TextBlock(TXT_A), TextBlock(TXT_B)>>, "end_turn"),
      Response(<<TextBlock(TXT_B), TextBlock(<<" ">>)>>, "end_turn"),
      Response(<<TextBlock(TXT_B), ToolUse(Call("get_context")),
                 ToolUse(ListEntries(10)), ToolUse(GetAsset("ctx_rules"))>>,
               "end_turn"),
      Response(<<ToolUse(Call("get_context"))>>, "end_turn"),
      Response(<<ToolUse(ListEntries(10))>>, "end_turn"),
      Response(<<ToolUse(ListEntries(5))>>, "end_turn"),
      Response(<<ToolUse(ListEntries(3))>>, "end_turn"),
      Response(<<ToolUse(GetAsset("ctx_rules"))>>, "end_turn"),
      Response(<<ToolUse(AddOk)>>, "end_turn"),
      Response(<<ToolUse(AddEntry(-1, 20, SPEAKER_1, <<>>))>>, "end_turn"),
      Response(<<ToolUse(AddEntry(0, 20, SPEAKER_1, <<>>))>>, "end_turn"),
      Response(<<ToolUse(AddEntry(10, 20, LEGACY_1, <<>>))>>, "end_turn"),
      Response(<<ToolUse(AddEntry(10, 20, <<>>, LEGACY_2))>>, "end_turn"),
      Response(<<ToolUse(AddEntry(10, 20, <<"user">>, <<>>))>>, "end_turn"),
      Response(<<ToolUse(AddEntry(10, 20, <<>>, <<>>))>>, "end_turn"),
      Response(<<ToolUse(AddEntry(10, 0, SPEAKER_2, <<>>))>>, "end_turn"),
      Response(<<ToolUse(AddEntry(600, 20, SPEAKER_2, <<>>))>>, "end_turn"),
      Response(<<TextBlock(TXT_B), ToolUse(PutContext(<<"d">>))>>, "end_turn"),
      Response(<<ToolUse(PutContext(<<>>))>>, "end_turn"),
      Response(<<ToolUse(PutContext(<<"d">>)), ToolUse(PutContext(<<"d">>))>>,
               "end_turn"),
      Response(<<ToolUse(PutContext(<<"d">>)),
                 ToolUse(AddEntry(-1, 20, SPEAKER_1, <<>>))>>, "end_turn"),
      Response(<<ToolUse(AddOk), ToolUse(Call("get_context"))>>, "end_turn"),
      Response(<<ToolUse(Call("get_context")), ToolUse(AddOk), ToolUse(AddOk)>>,
               "end_turn"),
      Response(<<ToolUse(Call("frobnicate"))>>, "end_turn"),
      Response(<<ToolUse(Call("get_default_prompts"))>>, "end_turn"),
      Response(<<ToolUse(CreateMemory(TITLE_CHAT))>>, "end_turn"),
      Response(<<ToolUse(Call("await_consistency")),
                 ToolUse(Call("list_assets"))>>, "end_turn"),
      Response(<<LegacyBlock(TXT_B, <<PutContext(<<"d">>)>>)>>, "end_turn"),
      Response(<<ToolUse(Call("get_context"))>>, "pause_turn") }

\* the responses, other than the plain one, explored once close_session runs
CloseResponses ==
    { Response(<<>>, "end_turn"),
      Response(<<TextBlock(TXT_B), ToolUse(PutContext(<<"d">>))>>, "end_turn"),
      Response(<<ToolUse(PutContext(<<>>))>>, "end_turn"),
      Response(<<ToolUse(PutContext(<<"d">>)), ToolUse(PutContext(<<"d">>))>>,
               "end_turn"),
      Response(<<ToolUse(PutContext(<<"d">>)),
                 ToolUse(AddEntry(-1, 20, SPEAKER_1, <<>>))>>, "end_turn"),
      Response(<<ToolUse(AddEntry(-1, 20, SPEAKER_1, <<>>))>>, "end_turn"),
      Response(<<LegacyBlock(TXT_B, <<PutContext(<<"d">>)>>)>>, "end_turn") }


(***************************************************************************)
(* State.                                                                  *)
(*   sim     the SessionSimulator object's fields, and the builder's       *)
(*           memory_id it reads and sets                                   *)
(*   stack   the step invocations in progress, innermost last              *)
(*   closer  the close_session invocation in progress                      *)
(*   lastOp  how the last top-level step or close_session call ended       *)
(*   sc      what the memory service has been asked to do                  *)
(*   env     the provider's response counter and the exploration budgets   *)
(***************************************************************************)
VARIABLES sim, stack, closer, lastOp, sc, env, limiter, retry, ingest, resolver

vars ==
    <<sim, stack, closer, lastOp, sc, env, limiter, retry, ingest, resolver>>

session == <<sim, stack, closer, lastOp, sc, env>>

\* what no operation of a session touches in this model
aside == <<limiter, retry, ingest, resolver>>

NoId == <<0, 0>>

\* history entries
UserText(msg) ==
    [role |-> "user", type |-> "text", text |-> msg, id |-> NoId,
     name |-> "", status |-> "", payload |-> ""]

AssistantText(txt) ==
    [role |-> "assistant", type |-> "text", text |-> txt, id |-> NoId,
     name |-> "", status |-> "", payload |-> ""]

ToolUseEntry(id, name) ==
    [role |-> "assistant", type |-> "tool_use", text |-> <<>>, id |-> id,
     name |-> name, status |-> "", payload |-> ""]

ToolResultEntry(id, status, payload) ==
    [role |-> "user", type |-> "tool_result", text |-> <<>>, id |-> id,
     name |-> "", status |-> status, payload |-> payload]

\* the messages the harness sends
MSG_SPEAKER_1 ==
    <<"benchmark_conversation", ":", "speaker", "_", "1", " ", "Hello">>
MSG_CONTROL == <<"control", ":", "bootstrap">>
HarnessMessages == {MSG_SPEAKER_1, MSG_CONTROL}

\* the prompts of close_session
MSG_SHUTDOWN == <<"control", ":", "test_harness", " ", "SESSION_END", "steps">>
MSG_REMINDER == <<"control", ":", "test_harness", " ", "SESSION_END", "REMINDER">>
MSG_NUDGE == <<"control", ":", "test_harness", " ", "SESSION_END">>
MSG_EXPLAIN == <<"explain", " ", "put_context">>

\* the prompt of the diagnostic turn a handler issues at `site`
DiagPrompt(site) == <<"diagnostic", " ", site>>

\* SessionSimulator.__init__
InitSim(builder_id) ==
    [history |-> <<>>,
     message_counter |-> 0,
     last_context_update |-> 0,
     tool_results |-> {},
     mem_aliases |-> [t \in {} |-> NoStr],
     asset_cache |-> {},
     boot_seen_ctx_rules |-> FALSE,
     boot_ctx_violation_asked |-> FALSE,
     boot_required_assets |-> {"ctx_rules"},
     boot_assets_downloaded |-> {},
     boot_seen_get_context |-> FALSE,
     boot_seen_list_entries |-> FALSE,
     boot_violation_asked |-> FALSE,
     asked_empty_ctx_reason |-> FALSE,
     builder_memory_id |-> builder_id]

\* the assets are left out of the predicate
IsBootstrapCompleteWithoutAssets(s) ==
    /\ s.boot_seen_get_context
    /\ s.boot_seen_list_entries

\* SessionSimulator.is_bootstrap_complete
IsBootstrapComplete(s) ==
    /\ s.boot_seen_get_context
    /\ s.boot_seen_list_entries
    /\ s.boot_required_assets \subseteq s.boot_assets_downloaded

IdleCloser ==
    [phase |-> "idle", attempt |-> 0, puts_at_start |-> 0,
     puts_at_attempt |-> 0, missed |-> FALSE]

\* how a top-level call ended; for close_session also what it did: the attempt
\* turns it ran, the explanation turns, the snapshot writes executed during
\* the call and during its last attempt, and whether it went on after an
\* attempt in which a snapshot write was executed
NoOp ==
    [op |-> "none", status |-> "none", err |-> "", reply |-> <<>>,
     explanation |-> <<>>, attempts |-> 0, explain_turns |-> 0,
     explain_status |-> "none", explain_reply |-> <<>>, puts |-> 0,
     attempt_puts |-> 0,
     missed |-> FALSE, attempt_raised |-> FALSE,
     request_explanation |-> FALSE]

Tasks == 1..NumTasks

\* the module globals at import (_last_call_ts = 0.0), a clock that reads one
\* interval, and every task between two turns
StartLimiter ==
    [now |-> RATE_LIMIT_INTERVAL,
     last_call_ts |-> 0,
     tasks |-> [t \in Tasks |-> [pc |-> "idle", wake |-> 0]],
     last_issued |-> -1,
     closest |-> RATE_LIMIT_INTERVAL,
     backoffs |-> 0]

\* no provider call is being made
StartRetry ==
    [pc |-> "idle", now |-> 0, max_deadline |-> 0, overload_backoff |-> 0,
     rate_backoff |-> 0, wake |-> 0, call_at |-> 0, calls |-> 0, slept |-> <<>>,
     kinds |-> <<>>, err |-> "", raised_at |-> 0, reissues |-> 0]

\* process_conversation has not begun to replay a session
StartIngest ==
    [pc |-> "idle", session |-> 0, complete |-> FALSE, turns_waited |-> 0,
     todo |-> 0, polls |-> 0, content |-> 0, early |-> FALSE,
     idle_polls |-> 0, closes |-> 0, err |-> ""]

\* a session without aliases whose builder holds builder_id
StartResolver(builder_id) ==
    [mem_aliases |-> [t \in {} |-> NoStr], builder_memory_id |-> builder_id,
     builder0 |-> builder_id, made |-> <<>>, pc |-> "idle",
     target |-> NoStr, result |-> NoStr]

Init ==
    /\ resolver = StartResolver(NoStr)
    /\ limiter = StartLimiter
    /\ retry = StartRetry
    /\ ingest = StartIngest
    /\ sim \in {InitSim(b) : b \in {NoStr, UUID_A}}
    /\ stack = <<>>
    /\ closer = IdleCloser
    /\ lastOp = NoOp
    /\ sc = [adds |-> <<>>, puts |-> 0, observed |-> {}]
    /\ env = [harness_steps |-> 0, varied |-> 0, provider_errors |-> 0,
              service_errors |-> 0, resp_seq |-> 0, closed |-> FALSE]

(***************************************************************************)
(* Frames.                                                                 *)
(*   pc      "call": awaiting the provider; "dispatch": in                 *)
(*           _dispatch_tool_calls before calls[idx]; "nested": a handler   *)
(*           awaits the diagnostic turn it issued at `site`; "returned",   *)
(*           "raised": the invocation has ended                            *)
(*   blocks  content_blocks; bumps: the +512 budget increases so far       *)
(*   calls   tool_calls; tus: tool_use_blocks; reply: reply_text           *)
(*   h0      the length of the history when the invocation started         *)
(***************************************************************************)
NewFrame(h0) ==
    [pc |-> "call", site |-> "", blocks |-> <<>>, bumps |-> 0,
     calls |-> <<>>, tus |-> <<>>, idx |-> 1, reply |-> <<>>, err |-> "",
     h0 |-> h0]

Top == stack[Len(stack)]
SetTop(f) == [stack EXCEPT ![Len(stack)] = f]

\* the user turn is appended and the counter left alone
StepEnterUncounted(s, msg) ==
    [s EXCEPT !.history = Append(@, UserText(msg))]

\* the history is begun anew with the user turn
StepEnterFresh(s, msg) ==
    [s EXCEPT !.history = <<UserText(msg)>>,
              !.message_counter = @ + 1]

\* step, lines 169-197: the user turn is appended and the counter incremented
StepEnter(s, msg) ==
    [s EXCEPT !.history = Append(@, UserText(msg)),
              !.message_counter = @ + 1]

\* step, lines 353-389: the reply text and the tool calls of content_blocks
RECURSIVE ParseBlocks(_, _)
ParseBlocks(blocks, acc) ==
    IF blocks = <<>> THEN acc
    ELSE LET b == Head(blocks) IN
         ParseBlocks(Tail(blocks),
            CASE b.type = "None" ->
                   [acc EXCEPT !.reply = Strip(b.text), !.calls = @ \o b.calls]
              [] b.type = "text" -> [acc EXCEPT !.reply = Strip(b.text)]
              [] b.type = "tool_use" ->
                   [acc EXCEPT !.tus = Append(@, [id |-> b.id, call |-> b.calls[1]]),
                               !.calls = Append(@, b.calls[1])]
              [] OTHER -> acc)

\* the stripped text of the first text segment that is not empty
RECURSIVE FirstNonEmptyText(_)
FirstNonEmptyText(blocks) ==
    IF blocks = <<>> THEN <<>>
    ELSE IF Head(blocks).type \in {"None", "text"}
            /\ Strip(Head(blocks).text) # <<>>
         THEN Strip(Head(blocks).text)
         ELSE FirstNonEmptyText(Tail(blocks))

\* the reply is the first non-empty text segment
ParsedFirstText(blocks) ==
    [ParseBlocks(blocks, [reply |-> <<>>, calls |-> <<>>, tus |-> <<>>])
        EXCEPT !.reply = FirstNonEmptyText(blocks)]

Parsed(blocks) == ParseBlocks(blocks, [reply |-> <<>>, calls |-> <<>>, tus |-> <<>>])

\* the provider's tool_use ids are unique: response n's k-th block gets <<n, k>>
WithIds(blocks, n) ==
    [k \in 1..Len(blocks) |->
        [type |-> blocks[k].type, text |-> blocks[k].text,
         calls |-> blocks[k].calls, id |-> <<n, k>>]]

\* step, lines 429-443: the result echoed for a tool_use block; tc is the
\* variable the logging loop of line 397 left bound, the last of tool_calls
ResultStatus(tc) ==
    IF tc.name \in {"add_entry", "put_context"} THEN "enqueued" ELSE "OK"

ResultPayload(tc, s) ==
    CASE tc.name = "create_memory" ->
           IF tc.title \in DOMAIN s.mem_aliases
           THEN s.mem_aliases[tc.title].s ELSE ""
      [] tc.name = "get_context" ->
           IF "get_context" \in s.tool_results THEN "context" ELSE ""
      [] tc.name = "list_entries" ->
           IF "list_entries" \in s.tool_results THEN "entries" ELSE "[]"
      [] tc.name = "search_memories" ->
           IF "search_memories" \in s.tool_results THEN "matches" ELSE "{}"
      [] OTHER -> "{}"

\* a tool_use echo without its tool_result
RECURSIVE EchoBlocksNoResult(_, _, _)
EchoBlocksNoResult(tus, tc, s) ==
    IF tus = <<>> THEN <<>>
    ELSE <<ToolUseEntry(Head(tus).id, Head(tus).call.name)>>
         \o EchoBlocksNoResult(Tail(tus), tc, s)

\* step, lines 414-452: one tool_use entry and one tool_result entry per block
RECURSIVE EchoBlocks(_, _, _)
EchoBlocks(tus, tc, s) ==
    IF tus = <<>> THEN <<>>
    ELSE <<ToolUseEntry(Head(tus).id, Head(tus).call.name),
           ToolResultEntry(Head(tus).id, ResultStatus(tc), ResultPayload(tc, s))>>
         \o EchoBlocks(Tail(tus), tc, s)


(***************************************************************************)
(* The harness: top-level calls of step and close_session.                 *)
(***************************************************************************)
\* a caller awaits step(user_text) on an idle session
HarnessStep(msg) ==
    /\ stack = <<>>
    /\ closer.phase = "idle"
    /\ env.harness_steps < MaxHarnessSteps
    /\ ~env.closed
    /\ sim' = StepEnter(sim, msg)
    /\ stack' = <<NewFrame(Len(sim.history))>>
    /\ env' = [env EXCEPT !.harness_steps = @ + 1]
    /\ lastOp' = NoOp
    /\ UNCHANGED <<closer, sc>>
    /\ UNCHANGED aside

\* the top-level step has ended: its caller sees the reply or the exception
HarnessReturn ==
    /\ Len(stack) = 1
    /\ closer.phase = "idle"
    /\ Top.pc \in {"returned", "raised"}
    /\ lastOp' = [NoOp EXCEPT !.op = "step", !.status = Top.pc,
                              !.err = Top.err, !.reply = Top.reply]
    /\ stack' = <<>>
    /\ UNCHANGED <<sim, closer, sc, env>>
    /\ UNCHANGED aside

(***************************************************************************)
(* step, lines 225-394: the provider call and the parsing of its response. *)
(***************************************************************************)
AwaitingProvider == stack # <<>> /\ Top.pc = "call"

\* the request is re-issued with the budget it had
BumpedNot(bumps) == bumps

\* line 335: kwargs["max_tokens"] grows by 512 with every re-issue
Bumped(bumps) == bumps + 1

\* the assistant turn is appended whatever the reply
AssistantTurnAlways(h, reply) == Append(h, AssistantText(reply))

\* lines 388-394: the visible text is kept in history only if non-empty
AssistantTurn(h, reply) ==
    IF reply # <<>> THEN Append(h, AssistantText(reply)) ELSE h

\* lines 330-404: the response is added to content_blocks; a pause_turn makes
\* step raise the budget by 512 and call again, anything else is parsed
StepOnResponse(r) ==
    LET n == env.resp_seq + 1
        blocks == Top.blocks \o WithIds(r.blocks, n)
        p == Parsed(blocks)
        hist == AssistantTurn(sim.history, p.reply)
    IN
    IF r.stop = "pause_turn"
    THEN /\ stack' = SetTop([Top EXCEPT !.blocks = blocks,
                                        !.bumps = Bumped(@)])
         /\ sim' = sim
    ELSE IF p.calls # <<>>
    THEN /\ stack' = SetTop([Top EXCEPT !.pc = "dispatch", !.blocks = blocks,
                                        !.calls = p.calls, !.tus = p.tus,
                                        !.idx = 1, !.reply = p.reply])
         /\ sim' = [sim EXCEPT !.history = hist, !.tool_results = {}]
    ELSE /\ stack' = SetTop([Top EXCEPT !.pc = "returned", !.blocks = blocks,
                                        !.reply = p.reply])
         /\ sim' = [sim EXCEPT !.history = hist]

\* the provider answers with the plain text reply
ProviderPlain ==
    /\ AwaitingProvider
    /\ StepOnResponse(PlainResponse)
    /\ env' = [env EXCEPT !.resp_seq = @ + 1]
    /\ UNCHANGED <<closer, lastOp, sc>>
    /\ UNCHANGED aside

\* the provider answers with any other response
ProviderVaried(r) ==
    /\ AwaitingProvider
    /\ env.varied < MaxVaried
    /\ r \in (IF env.closed THEN CloseResponses ELSE VariedResponses)
    /\ StepOnResponse(r)
    /\ env' = [env EXCEPT !.resp_seq = @ + 1, !.varied = @ + 1]
    /\ UNCHANGED <<closer, lastOp, sc>>
    /\ UNCHANGED aside

\* lines 243-325, 339: the provider call raises an error that propagates
ProviderError ==
    /\ AwaitingProvider
    /\ env.provider_errors < MaxProviderErrors
    /\ stack' = SetTop([Top EXCEPT !.pc = "raised", !.err = "ProviderError",
                                   !.blocks = <<>>])
    /\ env' = [env EXCEPT !.provider_errors = @ + 1]
    /\ UNCHANGED <<sim, closer, lastOp, sc>>
    /\ UNCHANGED aside

\* lines 414-454: every handler has returned; the tool_use and tool_result
\* entries are appended and step returns reply_text
StepFinish ==
    /\ stack # <<>>
    /\ Top.pc = "dispatch"
    /\ Top.idx > Len(Top.calls)
    /\ sim' = [sim EXCEPT !.history =
                 @ \o EchoBlocks(Top.tus, Top.calls[Len(Top.calls)], sim)]
    /\ stack' = SetTop([Top EXCEPT !.pc = "returned"])
    /\ UNCHANGED <<closer, lastOp, sc, env>>
    /\ UNCHANGED aside


(***************************************************************************)
(* _dispatch_tool_calls, lines 528-560, and the handlers.  A handler that  *)
(* raises ends the enclosing step; a handler that issues a diagnostic turn *)
(* leaves its frame "nested" and resumes when that turn has ended.         *)
(***************************************************************************)
Dispatching(name) ==
    /\ stack # <<>>
    /\ Top.pc = "dispatch"
    /\ Top.idx <= Len(Top.calls)
    /\ Top.calls[Top.idx].name = name

CurCall == Top.calls[Top.idx]

Advanced == SetTop([Top EXCEPT !.idx = @ + 1])
\* the error is noted and the dispatcher goes on with the next call
RaisedAndWentOn(err) == SetTop([Top EXCEPT !.err = err, !.idx = @ + 1])

Raised(err) == SetTop([Top EXCEPT !.pc = "raised", !.err = err])
\* the handler goes on dispatching while its diagnostic turn runs
NestedStillDispatching(site, s) ==
    Append(SetTop([Top EXCEPT !.site = site]), NewFrame(Len(s.history)))

Nested(site, s) ==
    Append(SetTop([Top EXCEPT !.pc = "nested", !.site = site]),
           NewFrame(Len(s.history)))

\* the handler awaits self.step(<prompt of site>) with the fields as in s
Diagnose(site, s) ==
    /\ Len(stack) < MaxDepth
    /\ sim' = StepEnter(s, DiagPrompt(site))
    /\ stack' = Nested(site, s)

\* a memory-service call returns or raises
ServiceOutcome(o) ==
    /\ o \in {"ok", "raise"}
    /\ o = "raise" => env.service_errors < MaxServiceErrors
    /\ env' = IF o = "raise" THEN [env EXCEPT !.service_errors = @ + 1] ELSE env

Resolved(c) ==
    ResolveMemoryId(c.memory_id, sim.mem_aliases, sim.builder_memory_id)

Observe(tag) == [sc EXCEPT !.observed = @ \cup {tag}]

\* lines 586-593: the role after the colon of the last conversation message
RECURSIVE InferRole(_, _)
InferRole(h, i) ==
    IF i = 0 THEN <<>>
    ELSE IF h[i].role = "user" /\ h[i].type = "text"
            /\ HasConversationPrefix(h[i].text)
         THEN AfterFirstColon(BeforeFirstBlank(h[i].text))
         ELSE InferRole(h, i - 1)

\* lines 581-595: role_value before normalisation (<<>>: none found)
RoleValue(c, h) ==
    LET given == IF c.role # <<>> THEN c.role ELSE c.tags_role
    IN IF given # <<>> THEN given ELSE InferRole(h, Len(h))

\* the legacy spellings are left as they are
NormaliseRoleSkipped(r) == r

\* lines 597-600
NormaliseRole(r) == IF r \in LegacyRoles THEN ReplaceBlank(r) ELSE r

\* lines 618-620: the role stored inside tags
TagsRole(c, role) == role

\* the violation is never noticed
AddBeforeListViolationIgnored(s) == FALSE

\* lines 631-635
AddBeforeListViolation(s) ==
    /\ s.boot_seen_get_context
    /\ ~s.boot_seen_list_entries
    /\ ~s.boot_violation_asked

\* _exec_add_entry, lines 562-647
ExecAddEntry ==
    /\ Dispatching("add_entry")
    /\ LET c == CurCall
           role0 == RoleValue(c, sim.history)
           role == NormaliseRole(role0)
           mem == Resolved(c)
       IN
       \/ /\ c.summary <= 0
          /\ Diagnose("missing_summary", sim)
          /\ UNCHANGED <<sc, env>>
       \/ /\ c.summary > 0
          /\ \/ /\ c.raw_entry <= 0
                /\ stack' = Raised("ValueError_raw_entry")
             \/ /\ c.raw_entry > 0
                /\ role0 = <<>>
                /\ stack' = Raised("ValueError_role")
             \/ /\ c.raw_entry > 0
                /\ role0 # <<>>
                /\ role \in AllowedRoles
                /\ mem = NoStr
                /\ stack' = Raised("ValueError_memory_id")
          /\ UNCHANGED <<sim, sc, env>>
       \/ /\ c.summary > 0
          /\ c.raw_entry > 0
          /\ role0 # <<>>
          /\ role \notin AllowedRoles
          /\ Diagnose("bad_role", sim)
          /\ UNCHANGED <<sc, env>>
       \/ /\ c.summary > 0
          /\ c.raw_entry > 0
          /\ role0 # <<>>
          /\ role \in AllowedRoles
          /\ mem # NoStr
          /\ \E o \in {"ok", "raise"} :
               /\ ServiceOutcome(o)
               /\ IF o = "raise"
                  THEN /\ stack' = Raised("ServiceError")
                       /\ UNCHANGED <<sim, sc>>
                  ELSE /\ sc' = [sc EXCEPT !.adds = Append(@,
                                  [memory_id |-> mem, summary |-> c.summary,
                                   raw_entry |-> c.raw_entry, role |-> role,
                                   tags_role |-> TagsRole(c, role),
                                   sent_role |-> role0,
                                   bootstrap_complete |-> IsBootstrapComplete(sim),
                                   listed |-> sim.boot_seen_list_entries,
                                   before_list |-> sim.boot_seen_get_context
                                       /\ ~sim.boot_seen_list_entries])]
                       /\ IF AddBeforeListViolation(sim)
                          THEN Diagnose("add_before_list",
                                  [sim EXCEPT !.boot_violation_asked = TRUE])
                          ELSE /\ stack' = Advanced
                               /\ sim' = sim
    /\ UNCHANGED <<closer, lastOp>>
    /\ UNCHANGED aside

\* line 652
ListLimit(c) == IF c.limit = -1 THEN MANDATED_LIMIT ELSE c.limit

\* lines 654-655
MarksEntriesListed(limit) == limit = MANDATED_LIMIT
\* no page size is fatal
IsFatalLimitNever(limit) == FALSE

\* line 658
IsFatalLimit(limit) == limit = VIOLATION_LIMIT

\* _exec_list_entries, lines 649-677
ExecListEntries ==
    /\ Dispatching("list_entries")
    /\ LET c == CurCall
           limit == ListLimit(c)
           s1 == IF MarksEntriesListed(limit)
                 THEN [sim EXCEPT !.boot_seen_list_entries = TRUE] ELSE sim
           seen == IF limit = MANDATED_LIMIT THEN Observe(<<"list_entries", "10">>) ELSE sc
       IN
       \/ /\ Resolved(c) = NoStr
          /\ stack' = Raised("ValueError_memory_id")
          /\ UNCHANGED <<sim, sc, env>>
       \/ /\ Resolved(c) # NoStr
          /\ IsFatalLimit(limit)
          /\ Diagnose("list5_explain", s1)
          /\ sc' = seen
          /\ env' = env
       \/ /\ Resolved(c) # NoStr
          /\ ~IsFatalLimit(limit)
          /\ sc' = seen
          /\ \E o \in {"ok", "raise"} :
               /\ ServiceOutcome(o)
               /\ IF o = "raise"
                  THEN /\ stack' = Raised("ServiceError")
                       /\ sim' = s1
                  ELSE /\ stack' = Advanced
                       /\ sim' = [s1 EXCEPT !.tool_results = @ \cup {"list_entries"}]
    /\ UNCHANGED <<closer, lastOp>>
    /\ UNCHANGED aside

\* _exec_get_context, lines 699-726
ExecGetContext ==
    /\ Dispatching("get_context")
    /\ \/ /\ Resolved(CurCall) = NoStr
          /\ stack' = Raised("ValueError_memory_id")
          /\ UNCHANGED <<sim, sc, env>>
       \/ /\ Resolved(CurCall) # NoStr
          /\ sc' = Observe(<<"get_context", "">>)
          /\ \E o \in {"ok", "raise"} :
               /\ ServiceOutcome(o)
               /\ IF o = "raise"
                  THEN /\ stack' = Raised("ServiceError")
                       /\ sim' = sim
                  ELSE /\ stack' = Advanced
                       /\ sim' = [sim EXCEPT !.tool_results = @ \cup {"get_context"},
                                             !.boot_seen_get_context = TRUE]
    /\ UNCHANGED <<closer, lastOp>>
    /\ UNCHANGED aside

\* every get_asset goes to the memory service, cached or not
ExecGetAssetRefetches ==
    /\ Dispatching("get_asset")
    /\ LET id == CurCall.asset IN
       \/ /\ id = ""
          /\ stack' = Raised("ValueError_asset_id")
          /\ UNCHANGED <<sim, sc, env>>
       \/ /\ id # ""
          /\ \E o \in {"ok", "raise", "empty"} :
               /\ o # "ok" => env.service_errors < MaxServiceErrors
               /\ env' = IF o # "ok"
                         THEN [env EXCEPT !.service_errors = @ + 1] ELSE env
               /\ IF o = "ok"
                  THEN /\ stack' = Advanced
                       /\ sim' = [sim EXCEPT
                            !.asset_cache = @ \cup {id},
                            !.tool_results = @ \cup {"get_asset"},
                            !.boot_seen_ctx_rules = @ \/ id = "ctx_rules",
                            !.boot_assets_downloaded = @ \cup {id}]
                       /\ sc' = Observe(<<"get_asset", id>>)
                  ELSE /\ stack' = Raised(IF o = "empty"
                                          THEN "RuntimeError_asset_empty"
                                          ELSE "ServiceError")
                       /\ UNCHANGED <<sim, sc>>
    /\ UNCHANGED <<closer, lastOp>>
    /\ UNCHANGED aside

\* _exec_get_asset, lines 756-778; the service may also return an empty text
ExecGetAsset ==
    /\ Dispatching("get_asset")
    /\ LET id == CurCall.asset IN
       \/ /\ id = ""
          /\ stack' = Raised("ValueError_asset_id")
          /\ UNCHANGED <<sim, sc, env>>
       \/ /\ id # ""
          /\ id \in sim.asset_cache
          /\ stack' = Advanced
          /\ sim' = [sim EXCEPT !.tool_results = @ \cup {"get_asset"}]
          /\ UNCHANGED <<sc, env>>
       \/ /\ id # ""
          /\ id \notin sim.asset_cache
          /\ \E o \in {"ok", "raise", "empty"} :
               /\ o # "ok" => env.service_errors < MaxServiceErrors
               /\ env' = IF o # "ok"
                         THEN [env EXCEPT !.service_errors = @ + 1] ELSE env
               /\ IF o = "ok"
                  THEN /\ stack' = Advanced
                       /\ sim' = [sim EXCEPT
                            !.asset_cache = @ \cup {id},
                            !.tool_results = @ \cup {"get_asset"},
                            !.boot_seen_ctx_rules = @ \/ id = "ctx_rules",
                            !.boot_assets_downloaded = @ \cup {id}]
                       /\ sc' = Observe(<<"get_asset", id>>)
                  ELSE /\ stack' = Raised(IF o = "empty"
                                          THEN "RuntimeError_asset_empty"
                                          ELSE "ServiceError")
                       /\ UNCHANGED <<sim, sc>>
    /\ UNCHANGED <<closer, lastOp>>
    /\ UNCHANGED aside


\* line 822
PutContent(c) == IF c.content = <<>> THEN <<"{", "}">> ELSE c.content

\* lines 844-848
EmptyContextDue(c, s) ==
    /\ Strip(PutContent(c)) \in {<<"{", "}">>, <<>>}
    /\ s.message_counter > EMPTY_CTX_MIN_MESSAGES
    /\ ~s.asked_empty_ctx_reason

\* lines 843-864: after the ctx_rules check, the empty-context questions
AfterCtxRulesCheck(c, s) ==
    IF EmptyContextDue(c, s)
    THEN Diagnose("empty_summary", [s EXCEPT !.asked_empty_ctx_reason = TRUE])
    ELSE /\ stack' = Advanced
         /\ sim' = s

\* _exec_put_context, lines 820-864
ExecPutContext ==
    /\ Dispatching("put_context")
    /\ LET c == CurCall IN
       \/ /\ Resolved(c) = NoStr
          /\ stack' = Raised("ValueError_memory_id")
          /\ UNCHANGED <<sim, sc, env>>
       \/ /\ Resolved(c) # NoStr
          /\ \E o \in {"ok", "raise"} :
               /\ ServiceOutcome(o)
               /\ IF o = "raise"
                  THEN /\ stack' = Raised("ServiceError")
                       /\ UNCHANGED <<sim, sc>>
                  ELSE LET s1 == [sim EXCEPT !.last_context_update =
                                                 sim.message_counter]
                       IN /\ sc' = [sc EXCEPT !.puts = @ + 1]
                          /\ IF ~s1.boot_seen_ctx_rules
                                /\ ~s1.boot_ctx_violation_asked
                             THEN Diagnose("ctx_rules",
                                    [s1 EXCEPT !.boot_ctx_violation_asked = TRUE])
                             ELSE AfterCtxRulesCheck(c, s1)
    /\ UNCHANGED <<closer, lastOp>>
    /\ UNCHANGED aside

\* the identifiers the memory service hands out for new memories
NewMemoryIds == {UUID_B}

\* _exec_create_memory, lines 687-697
ExecCreateMemory ==
    /\ Dispatching("create_memory")
    /\ LET title == CurCall.title IN
       \/ /\ title = NoStr
          /\ stack' = Raised("KeyError_title")
          /\ UNCHANGED <<sim, sc, env>>
       \/ /\ title # NoStr
          /\ \E o \in {"ok", "raise"} :
               /\ ServiceOutcome(o)
               /\ IF o = "raise"
                  THEN /\ stack' = Raised("ServiceError")
                       /\ sim' = sim
                  ELSE \E id \in NewMemoryIds :
                       /\ stack' = Advanced
                       /\ sim' = [sim EXCEPT
                            !.mem_aliases =
                               [t \in DOMAIN @ \cup {title} |->
                                   IF t = title THEN id ELSE @[t]],
                            !.builder_memory_id = id]
          /\ sc' = sc
    /\ UNCHANGED <<closer, lastOp>>
    /\ UNCHANGED aside

\* a failure of the wait leaves the handler
ExecAwaitConsistencyRaises ==
    /\ Dispatching("await_consistency")
    /\ \/ /\ Resolved(CurCall) = NoStr
          /\ stack' = Raised("ValueError_memory_id")
          /\ env' = env
       \/ /\ Resolved(CurCall) # NoStr
          /\ \E o \in {"ok", "raise"} :
               /\ ServiceOutcome(o)
               /\ stack' = IF o = "raise" THEN Raised("ServiceError") ELSE Advanced
    /\ UNCHANGED <<sim, closer, lastOp, sc>>
    /\ UNCHANGED aside

\* _exec_await_consistency, lines 738-746: a failure of the wait is swallowed
ExecAwaitConsistency ==
    /\ Dispatching("await_consistency")
    /\ \/ /\ Resolved(CurCall) = NoStr
          /\ stack' = Raised("ValueError_memory_id")
          /\ env' = env
       \/ /\ Resolved(CurCall) # NoStr
          /\ \E o \in {"ok", "raise"} : ServiceOutcome(o)
          /\ stack' = Advanced
    /\ UNCHANGED <<sim, closer, lastOp, sc>>
    /\ UNCHANGED aside

\* _exec_search_memories (679-685), _exec_list_assets (751-754): read-only
\* calls whose result is cached for the echo
ExecReadOnly ==
    /\ \E name \in {"search_memories", "list_assets"} :
         /\ Dispatching(name)
         /\ \/ /\ name = "search_memories"
               /\ Resolved(CurCall) = NoStr
               /\ stack' = Raised("ValueError_memory_id")
               /\ UNCHANGED <<sim, env>>
            \/ /\ name = "search_memories" => Resolved(CurCall) # NoStr
               /\ \E o \in {"ok", "raise"} :
                    /\ ServiceOutcome(o)
                    /\ IF o = "raise"
                       THEN /\ stack' = Raised("ServiceError")
                            /\ sim' = sim
                       ELSE /\ stack' = Advanced
                            /\ sim' = [sim EXCEPT !.tool_results = @ \cup {name}]
    /\ UNCHANGED <<closer, lastOp, sc>>
    /\ UNCHANGED aside

\* a name without a handler is an error
ExecNoOpRaises ==
    /\ stack # <<>>
    /\ Top.pc = "dispatch"
    /\ Top.idx <= Len(Top.calls)
    /\ CurCall.name \notin HandlerNames \ {"get_user", "get_memory"}
    /\ stack' = Raised("UnknownTool")
    /\ UNCHANGED <<sim, closer, lastOp, sc, env>>
    /\ UNCHANGED aside

\* _exec_get_user (728-730), _exec_get_memory (734-736), and line 557: a name
\* without a handler is ignored
ExecNoOp ==
    /\ stack # <<>>
    /\ Top.pc = "dispatch"
    /\ Top.idx <= Len(Top.calls)
    /\ CurCall.name \notin HandlerNames \ {"get_user", "get_memory"}
    /\ stack' = Advanced
    /\ UNCHANGED <<sim, closer, lastOp, sc, env>>
    /\ UNCHANGED aside

(***************************************************************************)
(* A diagnostic turn has ended: the handler that awaited it goes on.       *)
(***************************************************************************)
ChildEnded(site) ==
    /\ Len(stack) >= 2
    /\ Top.pc \in {"returned", "raised"}
    /\ stack[Len(stack) - 1].pc = "nested"
    /\ stack[Len(stack) - 1].site = site

Parent == stack[Len(stack) - 1]
Below == SubSeq(stack, 1, Len(stack) - 2)

ParentRaises(err) ==
    stack' = Append(Below, [Parent EXCEPT !.pc = "raised", !.err = err, !.site = ""])
ParentAdvances ==
    stack' = Append(Below, [Parent EXCEPT !.pc = "dispatch", !.idx = @ + 1, !.site = ""])
\* the handler issues its next diagnostic turn
ParentDiagnoses(site, s) ==
    /\ sim' = StepEnter(s, DiagPrompt(site))
    /\ stack' = Append(Append(Below, [Parent EXCEPT !.site = site]),
                       NewFrame(Len(s.history)))

\* the handler returns after the explanation instead of raising
ResumeMissingSummarySwallowed ==
    /\ ChildEnded("missing_summary")
    /\ ParentAdvances
    /\ UNCHANGED <<sim, closer, lastOp, sc, env, aside>>

\* lines 567-577: the explanation is logged, the ValueError raised either way
ResumeMissingSummary ==
    /\ ChildEnded("missing_summary")
    /\ ParentRaises("ValueError_summary")
    /\ UNCHANGED <<sim, closer, lastOp, sc, env>>
    /\ UNCHANGED aside

\* the handler returns after the diagnostic turn instead of raising
ResumeBadRoleSwallowed ==
    /\ ChildEnded("bad_role")
    /\ ParentAdvances
    /\ UNCHANGED <<sim, closer, lastOp, sc, env, aside>>

\* lines 606-613
ResumeBadRole ==
    /\ ChildEnded("bad_role")
    /\ ParentRaises("ValueError_non_canonical_role")
    /\ UNCHANGED <<sim, closer, lastOp, sc, env>>
    /\ UNCHANGED aside

\* a diagnostic turn that failed makes the handler fail
ResumeAddBeforeListRaises ==
    /\ ChildEnded("add_before_list")
    /\ IF Top.pc = "raised"
       THEN ParentRaises(Top.err)
       ELSE ParentAdvances
    /\ UNCHANGED <<sim, closer, lastOp, sc, env>>
    /\ UNCHANGED aside

\* lines 640-647: advisory, the handler returns
ResumeAddBeforeList ==
    /\ ChildEnded("add_before_list")
    /\ ParentAdvances
    /\ UNCHANGED <<sim, closer, lastOp, sc, env>>
    /\ UNCHANGED aside

\* lines 660-674: a second question follows a first that returned
ResumeListEntriesExplain ==
    /\ ChildEnded("list5_explain")
    /\ IF Top.pc = "returned"
       THEN ParentDiagnoses("list5_follow", sim)
       ELSE /\ ParentRaises("RuntimeError_list_entries_limit")
            /\ sim' = sim
    /\ UNCHANGED <<closer, lastOp, sc, env>>
    /\ UNCHANGED aside

ResumeListEntriesFollow ==
    /\ ChildEnded("list5_follow")
    /\ ParentRaises("RuntimeError_list_entries_limit")
    /\ UNCHANGED <<sim, closer, lastOp, sc, env>>
    /\ UNCHANGED aside

\* lines 835-864: after the ctx_rules question, the empty-context check
ResumeCtxRules ==
    /\ ChildEnded("ctx_rules")
    /\ LET c == Parent.calls[Parent.idx] IN
       IF EmptyContextDue(c, sim)
       THEN ParentDiagnoses("empty_summary",
                            [sim EXCEPT !.asked_empty_ctx_reason = TRUE])
       ELSE /\ ParentAdvances
            /\ sim' = sim
    /\ UNCHANGED <<closer, lastOp, sc, env>>
    /\ UNCHANGED aside

\* lines 851-864: the second question is inside the same try block
ResumeEmptySummary ==
    /\ ChildEnded("empty_summary")
    /\ IF Top.pc = "returned"
       THEN ParentDiagnoses("empty_reason", sim)
       ELSE /\ ParentAdvances
            /\ sim' = sim
    /\ UNCHANGED <<closer, lastOp, sc, env>>
    /\ UNCHANGED aside

ResumeEmptyReason ==
    /\ ChildEnded("empty_reason")
    /\ ParentAdvances
    /\ UNCHANGED <<sim, closer, lastOp, sc, env>>
    /\ UNCHANGED aside


(***************************************************************************)
(* close_session, lines 456-523.                                           *)
(***************************************************************************)
\* a caller awaits close_session(request_explanation = ...); the argument is
\* read at line 511 only, and is drawn there
HarnessClose ==
    /\ stack = <<>>
    /\ closer.phase = "idle"
    /\ ~env.closed
    /\ env.harness_steps <= MaxStepsBeforeClose
    /\ closer' = [phase |-> "attempt", attempt |-> 1, puts_at_start |-> sc.puts,
                  puts_at_attempt |-> sc.puts, missed |-> FALSE]
    /\ sim' = StepEnter(sim, MSG_SHUTDOWN)
    /\ stack' = <<NewFrame(Len(sim.history))>>
    /\ env' = [env EXCEPT !.closed = TRUE]
    /\ lastOp' = NoOp
    /\ sc' = sc
    /\ UNCHANGED aside

\* any earlier snapshot write counts
SnapshotDetectedLoose(s) == s.last_context_update <= s.message_counter

\* line 493
SnapshotDetected(s) == s.last_context_update = s.message_counter

\* the loop stops one attempt early
AttemptsLeftOffByOne(attempt) == attempt + 1 < MAX_TURNS

\* lines 489, 507: while attempt <= MAX_TURNS, after attempt += 1
AttemptsLeft(attempt) == attempt + 1 <= MAX_TURNS

\* lines 497-506
NextPrompt(attempt) ==
    IF attempt % REMINDER_EVERY = 0 THEN MSG_REMINDER ELSE MSG_NUDGE

AttemptEnded(pc) ==
    /\ Len(stack) = 1
    /\ closer.phase = "attempt"
    /\ Top.pc = pc

CloseOutcome(status, err, reply, explanation, turns, explain_status, req) ==
    [op |-> "close", status |-> status, err |-> err, reply |-> reply,
     explanation |-> explanation, attempts |-> closer.attempt,
     explain_turns |-> turns, explain_status |-> explain_status,
     explain_reply |-> IF closer.phase = "explain" THEN Top.reply ELSE <<>>,
     puts |-> sc.puts - closer.puts_at_start,
     attempt_puts |-> sc.puts - closer.puts_at_attempt,
     missed |-> closer.missed,
     attempt_raised |-> closer.phase = "attempt" /\ Top.pc = "raised",
     request_explanation |-> req]

\* the error of the attempt is dropped and the next attempt made
CloseAttemptRaisedRetries ==
    /\ AttemptEnded("raised")
    /\ closer' = [closer EXCEPT !.attempt = @ + 1,
                                !.puts_at_attempt = sc.puts]
    /\ sim' = StepEnter(sim, NextPrompt(closer.attempt))
    /\ stack' = <<NewFrame(Len(sim.history))>>
    /\ UNCHANGED <<lastOp, sc, env>>
    /\ UNCHANGED aside

\* line 491: the step of an attempt raised, close_session lets it through
CloseAttemptRaised ==
    /\ AttemptEnded("raised")
    /\ lastOp' = CloseOutcome("raised", Top.err, <<>>, <<>>, 0, "none", FALSE)
    /\ closer' = IdleCloser
    /\ stack' = <<>>
    /\ UNCHANGED <<sim, sc, env>>
    /\ UNCHANGED aside

\* lines 493-495
CloseReturn ==
    /\ AttemptEnded("returned")
    /\ SnapshotDetected(sim)
    /\ lastOp' = CloseOutcome("returned", "", Top.reply, <<>>, 0, "none", FALSE)
    /\ closer' = IdleCloser
    /\ stack' = <<>>
    /\ UNCHANGED <<sim, sc, env>>
    /\ UNCHANGED aside

\* lines 497-507, 489-491: the next attempt
CloseNextAttempt ==
    /\ AttemptEnded("returned")
    /\ ~SnapshotDetected(sim)
    /\ AttemptsLeft(closer.attempt)
    /\ closer' = [closer EXCEPT !.attempt = @ + 1,
                                !.puts_at_attempt = sc.puts,
                                !.missed = @ \/ sc.puts > closer.puts_at_attempt]
    /\ sim' = StepEnter(sim, NextPrompt(closer.attempt))
    /\ stack' = <<NewFrame(Len(sim.history))>>
    /\ UNCHANGED <<lastOp, sc, env>>
    /\ UNCHANGED aside

\* lines 509-516: the budget is spent and request_explanation is True
CloseAskExplanation ==
    /\ AttemptEnded("returned")
    /\ ~SnapshotDetected(sim)
    /\ ~AttemptsLeft(closer.attempt)
    /\ closer' = [closer EXCEPT !.phase = "explain",
                                !.missed = @ \/ sc.puts > closer.puts_at_attempt]
    /\ sim' = StepEnter(sim, MSG_EXPLAIN)
    /\ stack' = <<NewFrame(Len(sim.history))>>
    /\ UNCHANGED <<lastOp, sc, env>>
    /\ UNCHANGED aside

\* the engine saves a snapshot of its own before it gives up
CloseExhaustedSaves ==
    /\ AttemptEnded("returned")
    /\ ~SnapshotDetected(sim)
    /\ ~AttemptsLeft(closer.attempt)
    /\ lastOp' = [CloseOutcome("raised", "RuntimeError_no_put_context",
                               <<>>, <<>>, 0, "none", FALSE)
                  EXCEPT !.missed = @ \/ sc.puts > closer.puts_at_attempt]
    /\ closer' = IdleCloser
    /\ stack' = <<>>
    /\ sc' = [sc EXCEPT !.puts = @ + 1]
    /\ UNCHANGED <<sim, env>>
    /\ UNCHANGED aside

\* lines 509-523 with request_explanation = False
CloseExhausted ==
    /\ AttemptEnded("returned")
    /\ ~SnapshotDetected(sim)
    /\ ~AttemptsLeft(closer.attempt)
    /\ lastOp' = [CloseOutcome("raised", "RuntimeError_no_put_context",
                               <<>>, <<>>, 0, "none", FALSE)
                  EXCEPT !.missed = @ \/ sc.puts > closer.puts_at_attempt]
    /\ closer' = IdleCloser
    /\ stack' = <<>>
    /\ UNCHANGED <<sim, sc, env>>
    /\ UNCHANGED aside

\* lines 517-523: the explanation turn returned or raised; RuntimeError
CloseExplained ==
    /\ Len(stack) = 1
    /\ closer.phase = "explain"
    /\ Top.pc \in {"returned", "raised"}
    /\ lastOp' = CloseOutcome("raised", "RuntimeError_no_put_context", <<>>,
                              IF Top.pc = "returned" THEN Top.reply ELSE <<>>,
                              1, Top.pc, TRUE)
    /\ closer' = IdleCloser
    /\ stack' = <<>>
    /\ UNCHANGED <<sim, sc, env>>
    /\ UNCHANGED aside

(***************************************************************************)
(* The session engine.                                                     *)
(***************************************************************************)
Next ==
    \/ \E msg \in HarnessMessages : HarnessStep(msg)
    \/ HarnessReturn
    \/ HarnessClose
    \/ ProviderPlain
    \/ \E r \in VariedResponses : ProviderVaried(r)
    \/ ProviderError
    \/ StepFinish
    \/ ExecAddEntry
    \/ ExecListEntries
    \/ ExecGetContext
    \/ ExecGetAsset
    \/ ExecPutContext
    \/ ExecCreateMemory
    \/ ExecAwaitConsistency
    \/ ExecReadOnly
    \/ ExecNoOp
    \/ ResumeMissingSummary
    \/ ResumeBadRole
    \/ ResumeAddBeforeList
    \/ ResumeListEntriesExplain
    \/ ResumeListEntriesFollow
    \/ ResumeCtxRules
    \/ ResumeEmptySummary
    \/ ResumeEmptyReason
    \/ CloseAttemptRaised
    \/ CloseReturn
    \/ CloseNextAttempt
    \/ CloseAskExplanation
    \/ CloseExhausted
    \/ CloseExplained

Spec == Init /\ [][Next]_vars



(***************************************************************************)
(* The rate limiter, shared by the sessions of one process.  The sessions  *)
(* are tasks of one event loop: a task runs until it awaits.  The clock    *)
(* counts seconds; the jitter after the limiter (0.05 s to 0.15 s) is      *)
(* shorter than one second and is an await that takes no time here.        *)
(*   pc   "idle": between two provider calls; "sleeping": in the sleep of  *)
(*        _respect_rate_limit; "jitter": in the sleep after it;            *)
(*        "in_flight": awaiting create_fn; "backoff": in the sleep of the  *)
(*        retry loop                                                       *)
(*   last_issued, closest   the instant of the last provider call and the  *)
(*        smallest distance seen between two calls (observation only)      *)
(***************************************************************************)
\* the sleep is computed from the clock alone
SleepForSinceStart(l) == RATE_LIMIT_INTERVAL - l.now

\* _respect_rate_limit, line 44
SleepFor(l) == RATE_LIMIT_INTERVAL - (l.now - l.last_call_ts)

SetTask(l, t, pc, wake) == [l EXCEPT !.tasks[t] = [pc |-> pc, wake |-> wake]]

\* line 47: _last_call_ts = time.monotonic()
Stamped(l) == [l EXCEPT !.last_call_ts = l.now]

\* create_fn(**kwargs) sends one request to the provider
Issued(l, t) ==
    [SetTask(l, t, "in_flight", l.now) EXCEPT
        !.last_issued = l.now,
        !.closest = IF l.last_issued >= 0 /\ l.now - l.last_issued < l.closest
                    THEN l.now - l.last_issued
                    ELSE l.closest]

\* lines 40-47 up to the first await: a turn, or the re-issue after
\* pause_turn, enters the limiter
RespectRateLimit(t) ==
    /\ limiter.tasks[t].pc = "idle"
    /\ limiter' = IF SleepFor(limiter) > 0
                  THEN SetTask(limiter, t, "sleeping",
                               limiter.now + SleepFor(limiter))
                  ELSE SetTask(Stamped(limiter), t, "jitter", limiter.now)
    /\ UNCHANGED <<session, retry, ingest, resolver>>

\* lines 46-47: the sleep is over
RateLimitWake(t) ==
    /\ limiter.tasks[t].pc = "sleeping"
    /\ limiter.tasks[t].wake <= limiter.now
    /\ limiter' = SetTask(Stamped(limiter), t, "jitter", limiter.now)
    /\ UNCHANGED <<session, retry, ingest, resolver>>

\* lines 227 and 245 (339 and 340 after pause_turn)
CreateFn(t) ==
    /\ limiter.tasks[t].pc = "jitter"
    /\ limiter' = Issued(limiter, t)
    /\ UNCHANGED <<session, retry, ingest, resolver>>

\* line 246, or a pause_turn response: the task goes on
ProviderResponds(t) ==
    /\ limiter.tasks[t].pc = "in_flight"
    /\ limiter' = SetTask(limiter, t, "idle", 0)
    /\ UNCHANGED <<session, retry, ingest, resolver>>

\* lines 251-270 and 276-319: HTTP 529, 500 or 429, the task sleeps the back-off
ProviderOverloaded(t) ==
    /\ limiter.tasks[t].pc = "in_flight"
    /\ limiter.backoffs < MaxBackoffs
    /\ limiter' = [SetTask(limiter, t, "backoff", limiter.now + FIRST_BACKOFF)
                      EXCEPT !.backoffs = limiter.backoffs + 1]
    /\ UNCHANGED <<session, retry, ingest, resolver>>

\* lines 270-272 and 319-322: continue, create_fn is called again
RetryCreateFn(t) ==
    /\ limiter.tasks[t].pc = "backoff"
    /\ limiter.tasks[t].wake <= limiter.now
    /\ limiter' = Issued(limiter, t)
    /\ UNCHANGED <<session, retry, ingest, resolver>>

\* a task that can run does so before the clock moves
Runnable(t) ==
    \/ limiter.tasks[t].pc = "jitter"
    \/ /\ limiter.tasks[t].pc \in {"sleeping", "backoff"}
       /\ limiter.tasks[t].wake <= limiter.now

Tick ==
    /\ limiter.now < MaxTime
    /\ \A t \in Tasks : ~Runnable(t)
    /\ limiter' = [limiter EXCEPT !.now = limiter.now + 1]
    /\ UNCHANGED <<session, retry, ingest, resolver>>

RateInit ==
    /\ resolver = StartResolver(NoStr)
    /\ limiter = StartLimiter
    /\ retry = StartRetry
    /\ ingest = StartIngest
    /\ sim = InitSim(NoStr)
    /\ stack = <<>>
    /\ closer = IdleCloser
    /\ lastOp = NoOp
    /\ sc = [adds |-> <<>>, puts |-> 0, observed |-> {}]
    /\ env = [harness_steps |-> 0, varied |-> 0, provider_errors |-> 0,
              service_errors |-> 0, resp_seq |-> 0, closed |-> FALSE]

RateNext ==
    \/ \E t \in Tasks : RespectRateLimit(t)
    \/ \E t \in Tasks : RateLimitWake(t)
    \/ \E t \in Tasks : CreateFn(t)
    \/ \E t \in Tasks : ProviderResponds(t)
    \/ \E t \in Tasks : ProviderOverloaded(t)
    \/ \E t \in Tasks : RetryCreateFn(t)
    \/ Tick

SpecRate == RateInit /\ [][RateNext]_vars

\* one session and no other task: the limiter is used by a single flow of
\* control, step after step (lines 226-227 and 243-340 of one SessionSimulator)
SoloTask == CHOOSE t \in Tasks : TRUE

SoloNext ==
    \/ RespectRateLimit(SoloTask)
    \/ RateLimitWake(SoloTask)
    \/ CreateFn(SoloTask)
    \/ ProviderResponds(SoloTask)
    \/ ProviderOverloaded(SoloTask)
    \/ RetryCreateFn(SoloTask)
    \/ Tick

SpecRateSolo == RateInit /\ [][SoloNext]_vars

(***************************************************************************)
(* The retry loop of one provider call, step lines 229-325.  The clock     *)
(* counts seconds; a call to the provider takes up to MaxLatency seconds   *)
(* and a sleep exactly the time asked for.                                 *)
(*   pc     "idle"; "calling": awaiting create_fn; "sleeping": in the      *)
(*          back-off sleep; "done": the loop was left by break; "raised":  *)
(*          an error left step                                             *)
(*   calls, slept, kinds, raised_at   the calls made, the back-off sleeps  *)
(*          taken, the errors that led to them, and the instant of the     *)
(*          raise (observation only)                                       *)
(***************************************************************************)
Min(a, b) == IF a <= b THEN a ELSE b

\* the back-off never grows
NextOverloadBackoffFlat(b) == b

\* line 269
NextOverloadBackoff(b) == Min(b * 2, OVERLOAD_CAP)

\* line 317
NextRateBackoff(b) == Min(b * 2, RATE_CAP)

\* lines 229-245: the deadline and the back-offs are set, create_fn is called
RetryEnter ==
    /\ retry.pc = "idle"
    /\ retry' = [retry EXCEPT !.pc = "calling",
                              !.max_deadline = retry.now + DEADLINE_SECONDS,
                              !.overload_backoff = FIRST_BACKOFF,
                              !.rate_backoff = FIRST_BACKOFF,
                              !.call_at = retry.now,
                              !.calls = 1]
    /\ UNCHANGED <<session, limiter, ingest, resolver>>

\* lines 245-246
RetrySucceeds ==
    /\ retry.pc = "calling"
    /\ retry' = [retry EXCEPT !.pc = "done"]
    /\ UNCHANGED <<session, limiter, ingest, resolver>>

\* the error leaves step
Propagated(r, err) == [r EXCEPT !.pc = "raised", !.err = err, !.raised_at = r.now]

\* await asyncio.sleep(backoff)
BackedOff(r, kind, backoff) ==
    [r EXCEPT !.pc = "sleeping", !.wake = r.now + backoff,
              !.slept = Append(r.slept, backoff),
              !.kinds = Append(r.kinds, kind)]

\* an overload also doubles the back-off of the other class
RetryOverloadedCoupled ==
    /\ retry.pc = "calling"
    /\ retry' = IF retry.now + retry.overload_backoff > retry.max_deadline
                THEN Propagated(retry, "overloaded")
                ELSE [BackedOff(retry, "overloaded", retry.overload_backoff)
                         EXCEPT !.overload_backoff = NextOverloadBackoff(@),
                                !.rate_backoff = Min(@ * 2, RATE_CAP)]
    /\ UNCHANGED <<session, limiter, ingest, resolver>>

\* lines 251-271: InternalServerError with status 529 or 500
RetryOverloaded ==
    /\ retry.pc = "calling"
    /\ retry' = IF retry.now + retry.overload_backoff > retry.max_deadline
                THEN Propagated(retry, "overloaded")
                ELSE [BackedOff(retry, "overloaded", retry.overload_backoff)
                         EXCEPT !.overload_backoff = NextOverloadBackoff(@)]
    /\ UNCHANGED <<session, limiter, ingest, resolver>>

\* lines 278-319: RateLimitError with status 429 or without status
RetryRateLimited ==
    /\ retry.pc = "calling"
    /\ retry' = IF retry.now + retry.rate_backoff > retry.max_deadline
                THEN Propagated(retry, "rate_limited")
                ELSE [BackedOff(retry, "rate_limited", retry.rate_backoff)
                         EXCEPT !.rate_backoff = NextRateBackoff(@)]
    /\ UNCHANGED <<session, limiter, ingest, resolver>>

\* the error is taken for an overload: back-off, then another call
RetryOtherErrorBackedOff ==
    /\ retry.pc = "calling"
    /\ retry' = BackedOff(retry, "other", retry.overload_backoff)
    /\ UNCHANGED <<session, limiter, ingest, resolver>>

\* lines 272-273, 281-283, 324-325: an InternalServerError with another
\* status, a RateLimitError with another status, any other exception
RetryOtherError ==
    /\ retry.pc = "calling"
    /\ retry' = Propagated(retry, "other")
    /\ UNCHANGED <<session, limiter, ingest, resolver>>

\* lines 270-271, 318-319: the sleep is over, continue
RetryAgain ==
    /\ retry.pc = "sleeping"
    /\ retry' = [retry EXCEPT !.pc = "calling", !.now = retry.wake,
                              !.call_at = retry.wake, !.calls = @ + 1]
    /\ UNCHANGED <<session, limiter, ingest, resolver>>

\* lines 332-339: the response carries pause_turn; the request is issued
\* again, outside the retry loop
RetryPaused ==
    /\ retry.pc \in {"calling", "continuing"}
    /\ retry.reissues < MaxReissues
    /\ retry' = [retry EXCEPT !.pc = "continuing", !.call_at = retry.now,
                              !.reissues = @ + 1]
    /\ UNCHANGED <<session, limiter, ingest, resolver>>

\* lines 339-342: the re-issue is answered without pause_turn
ContinuationSucceeds ==
    /\ retry.pc = "continuing"
    /\ retry' = [retry EXCEPT !.pc = "done"]
    /\ UNCHANGED <<session, limiter, ingest, resolver>>

\* line 339: no handler encloses the re-issue, an error of any class leaves
\* step
ContinuationFails(kind) ==
    /\ retry.pc = "continuing"
    /\ retry' = Propagated(retry, kind)
    /\ UNCHANGED <<session, limiter, ingest, resolver>>

\* the provider has not answered yet
ClockTick ==
    /\ retry.pc \in {"calling", "continuing"}
    /\ retry.now - retry.call_at < MaxLatency
    /\ retry' = [retry EXCEPT !.now = @ + 1]
    /\ UNCHANGED <<session, limiter, ingest, resolver>>

RetryInit ==
    /\ resolver = StartResolver(NoStr)
    /\ limiter = StartLimiter
    /\ retry = StartRetry
    /\ ingest = StartIngest
    /\ sim = InitSim(NoStr)
    /\ stack = <<>>
    /\ closer = IdleCloser
    /\ lastOp = NoOp
    /\ sc = [adds |-> <<>>, puts |-> 0, observed |-> {}]
    /\ env = [harness_steps |-> 0, varied |-> 0, provider_errors |-> 0,
              service_errors |-> 0, resp_seq |-> 0, closed |-> FALSE]

RetryNext ==
    \/ RetryEnter
    \/ RetrySucceeds
    \/ RetryOverloaded
    \/ RetryRateLimited
    \/ RetryOtherError
    \/ RetryAgain
    \/ RetryPaused
    \/ ContinuationSucceeds
    \/ \E kind \in {"overloaded", "rate_limited", "other"} : ContinuationFails(kind)
    \/ ClockTick

SpecRetry == RetryInit /\ [][RetryNext]_vars

(***************************************************************************)
(* ConversationIngestor.process_conversation, lines 80-131 of              *)
(* collaborative_builder.py.  The simulator of a session is seen through   *)
(* what the ingestor uses of it: step and close_session return or raise,   *)
(* and is_bootstrap_complete, once true, stays true.                       *)
(*   pc     "idle"; "waiting": in the polling loop; "replay": streaming    *)
(*          the session's messages; "done"; "raised"                       *)
(*   todo   the messages of the session still to send                      *)
(*   polls, content, closes   the polling turns, content turns and         *)
(*          close_session calls of the session (observation only)          *)
(*   early, idle_polls   a content turn was sent while the predicate was   *)
(*          false; polling turns sent while it was true (observation only) *)
(***************************************************************************)
\* the loop takes one polling turn more
PollDueOffByOne(complete, turns_waited) ==
    ~complete /\ turns_waited <= MAX_WAIT_TURNS

\* line 104: while not simulator.is_bootstrap_complete and turns_waited < MAX_WAIT_TURNS
PollDue(complete, turns_waited) ==
    ~complete /\ turns_waited < MAX_WAIT_TURNS

\* await simulator.step(...) returns, the predicate as the turn left it, or raises
SimulatorStep(i, outcome, complete) ==
    IF outcome = "raise"
    THEN [i EXCEPT !.pc = "raised", !.err = "step"]
    ELSE [i EXCEPT !.complete = i.complete \/ complete]

\* lines 80-98: the next session gets a new simulator, and the bootstrap turn
IngestSession(n, outcome, complete) ==
    /\ ingest.pc \in {"idle", "closed"}
    /\ ingest.session < MaxSessions
    /\ n \in 0..MaxMessages
    /\ ingest' = SimulatorStep(
                    [ingest EXCEPT !.pc = "waiting", !.session = @ + 1,
                                   !.complete = FALSE, !.turns_waited = 0,
                                   !.todo = n, !.polls = 0, !.content = 0,
                                   !.idle_polls = 0, !.closes = 0],
                    outcome, complete)
    /\ UNCHANGED <<session, limiter, retry, resolver>>

\* lines 104-108
IngestPoll(outcome, complete) ==
    /\ ingest.pc = "waiting"
    /\ PollDue(ingest.complete, ingest.turns_waited)
    /\ ingest' = SimulatorStep(
                    [ingest EXCEPT !.turns_waited = @ + 1, !.polls = @ + 1,
                                   !.idle_polls = IF ingest.complete
                                                  THEN @ + 1 ELSE @],
                    outcome, complete)
    /\ UNCHANGED <<session, limiter, retry, resolver>>

\* lines 110-112
IngestAbort ==
    /\ ingest.pc = "waiting"
    /\ ~PollDue(ingest.complete, ingest.turns_waited)
    /\ ~ingest.complete
    /\ ingest' = [ingest EXCEPT !.pc = "raised", !.err = "RuntimeError_bootstrap"]
    /\ UNCHANGED <<session, limiter, retry, resolver>>

\* lines 110, 117-120
IngestReplay ==
    /\ ingest.pc = "waiting"
    /\ ~PollDue(ingest.complete, ingest.turns_waited)
    /\ ingest.complete
    /\ ingest' = [ingest EXCEPT !.pc = "replay"]
    /\ UNCHANGED <<session, limiter, retry, resolver>>

\* lines 122-126: one speaker-prefixed message
IngestContent(outcome) ==
    /\ ingest.pc = "replay"
    /\ ingest.todo > 0
    /\ ingest' = SimulatorStep(
                    [ingest EXCEPT !.todo = @ - 1, !.content = @ + 1,
                                   !.early = @ \/ ~ingest.complete],
                    outcome, FALSE)
    /\ UNCHANGED <<session, limiter, retry, resolver>>

\* line 131: await simulator.close_session()
IngestClose(outcome) ==
    /\ ingest.pc = "replay"
    /\ ingest.todo = 0
    /\ ingest' = IF outcome = "raise"
                 THEN [ingest EXCEPT !.pc = "raised", !.err = "close_session",
                                     !.closes = @ + 1]
                 ELSE [ingest EXCEPT !.pc = "closed", !.closes = @ + 1]
    /\ UNCHANGED <<session, limiter, retry, resolver>>

Outcomes == {"return", "raise"}

IngestInit ==
    /\ resolver = StartResolver(NoStr)
    /\ limiter = StartLimiter
    /\ retry = StartRetry
    /\ ingest = StartIngest
    /\ sim = InitSim(NoStr)
    /\ stack = <<>>
    /\ closer = IdleCloser
    /\ lastOp = NoOp
    /\ sc = [adds |-> <<>>, puts |-> 0, observed |-> {}]
    /\ env = [harness_steps |-> 0, varied |-> 0, provider_errors |-> 0,
              service_errors |-> 0, resp_seq |-> 0, closed |-> FALSE]

IngestNext ==
    \/ \E n \in 0..MaxMessages, o \in Outcomes, c \in BOOLEAN :
          IngestSession(n, o, c)
    \/ \E o \in Outcomes, c \in BOOLEAN : IngestPoll(o, c)
    \/ IngestAbort
    \/ IngestReplay
    \/ \E o \in Outcomes : IngestContent(o)
    \/ \E o \in Outcomes : IngestClose(o)

SpecIngest == IngestInit /\ [][IngestNext]_vars

(***************************************************************************)
(* Target resolution in one session: create_memory calls that succeed and  *)
(* tool calls that name a target, lines 123-142 and 687-697.               *)
(*   made     the <<title, identifier>> pairs of the create_memory calls,  *)
(*            in order (observation only)                                  *)
(*   builder0 the builder's memory_id when the session began               *)
(*   target, result, pc   the target named last, what it resolved to, and  *)
(*            whether the resolution returned or raised                    *)
(***************************************************************************)
CreatedTitles == {TITLE_CHAT, TITLE_HEX}
CreatedIds == {UUID_B, UUID_C}
Candidates == {NoStr, UUID_A, TITLE_CHAT, TITLE_NOTES, TITLE_HEX}

\* lines 687-697: the service returns id, the title is registered
ResolverCreateMemory(title, id) ==
    /\ Len(resolver.made) < MaxCreates
    /\ resolver' = [resolver EXCEPT
          !.mem_aliases = [t \in DOMAIN @ \cup {title} |->
                              IF t = title THEN id ELSE @[t]],
          !.builder_memory_id = id,
          !.made = Append(@, <<title, id>>),
          !.pc = "idle", !.target = NoStr, !.result = NoStr]
    /\ UNCHANGED <<session, limiter, retry, ingest>>

\* a handler calls self._resolve_memory_id(args.get("memory_id"))
ResolverResolve(candidate) ==
    /\ LET r == ResolveMemoryId(candidate, resolver.mem_aliases,
                                resolver.builder_memory_id)
       IN resolver' = [resolver EXCEPT
             !.target = candidate, !.result = r,
             !.pc = IF r = NoStr THEN "raised" ELSE "resolved"]
    /\ UNCHANGED <<session, limiter, retry, ingest>>

ResolverInit ==
    /\ resolver \in {StartResolver(b) : b \in {NoStr, UUID_A}}
    /\ limiter = StartLimiter
    /\ retry = StartRetry
    /\ ingest = StartIngest
    /\ sim = InitSim(NoStr)
    /\ stack = <<>>
    /\ closer = IdleCloser
    /\ lastOp = NoOp
    /\ sc = [adds |-> <<>>, puts |-> 0, observed |-> {}]
    /\ env = [harness_steps |-> 0, varied |-> 0, provider_errors |-> 0,
              service_errors |-> 0, resp_seq |-> 0, closed |-> FALSE]

ResolverNext ==
    \/ \E t \in CreatedTitles, id \in CreatedIds : ResolverCreateMemory(t, id)
    \/ \E c \in Candidates : ResolverResolve(c)

SpecResolver == ResolverInit /\ [][ResolverNext]_vars

(***************************************************************************)
(* Properties.                                                             *)
(***************************************************************************)
Frames == {stack[i] : i \in 1..Len(stack)}

\* the calls of frame f whose handlers have returned
Completed(f) == {f.calls[j] : j \in 1..(f.idx - 1)}

\* the call whose handler made frame f raise
RaisedAt(f) == f.calls[f.idx]

HistoryIndexes(type) == {i \in 1..Len(sim.history) : sim.history[i].type = type}

UserTurns(msg) ==
    {i \in 1..Len(sim.history) :
        /\ sim.history[i].role = "user"
        /\ sim.history[i].type = "text"
        /\ sim.history[i].text = msg}

MissingSummary(c) == c.name = "add_entry" /\ c.summary <= 0

\* C1: in the conversation history every tool-use entry is immediately
\* followed by a tool-result entry carrying the same tool-use id, and every
\* tool-result entry immediately follows such a tool-use entry: no tool-use
\* entry is last or followed by anything else, in any state a sequence of
\* step and close_session calls reaches.
C1_NoDanglingToolUse ==
    LET h == sim.history IN
    \A i \in 1..Len(h) :
       /\ h[i].type = "tool_use" =>
             /\ i < Len(h)
             /\ h[i + 1].type = "tool_result"
             /\ h[i + 1].id = h[i].id
       /\ h[i].type = "tool_result" =>
             /\ i > 1
             /\ h[i - 1].type = "tool_use"
             /\ h[i - 1].id = h[i].id

\* a call has raised on a history that holds echoed tool calls and later turns
C1_Witness ==
    /\ stack = <<>>
    /\ lastOp.status = "raised"
    /\ \E i \in HistoryIndexes("tool_use") : i + 1 < Len(sim.history)

\* C2: close_session returns normally only after an attempt in which a
\* snapshot write was executed, and it returns at the end of every attempt in
\* which one was executed: it never goes on to another attempt, or to the
\* final RuntimeError, after such an attempt.
C2_ReturnsIffSnapshotInAttempt ==
    /\ lastOp.op = "close" /\ lastOp.status = "returned" => lastOp.attempt_puts > 0
    /\ ~closer.missed
    /\ ~lastOp.missed

\* C3: with the sessions of one process running as concurrent tasks and
\* sharing _last_call_ts, no two provider calls (first calls of a turn,
\* re-issues after pause_turn, back-off retries) are issued less than the
\* configured interval apart.
C3_CallsAnIntervalApart ==
    limiter.closest >= RATE_LIMIT_INTERVAL

\* what the bootstrap predicate rests on has been observed
BootstrapObserved ==
    /\ <<"get_context", "">> \in sc.observed
    /\ <<"list_entries", "10">> \in sc.observed
    /\ \A a \in sim.boot_required_assets : <<"get_asset", a>> \in sc.observed

C4_Inv == IsBootstrapComplete(sim) => BootstrapObserved

C5_NoAddEntryBeforeBootstrap ==
    \A i \in 1..Len(sc.adds) : sc.adds[i].bootstrap_complete

\* C5, amended: the engine does not hold an add_entry back; it only notices
\* one executed after get_context and before list_entries(limit = 10): once
\* such an add_entry has reached the memory service, _boot_violation_asked is
\* set (the advisory diagnostic turn has been issued).
C5_AddBeforeListIsNoticed ==
    (\E i \in 1..Len(sc.adds) : sc.adds[i].before_list)
        => sim.boot_violation_asked

\* an add_entry was executed before the bootstrap was complete, after
\* get_context and before list_entries
C5_Witness ==
    \E i \in 1..Len(sc.adds) :
        sc.adds[i].before_list /\ ~sc.adds[i].bootstrap_complete

\* C6 as stated: no list_entries call with a limit other than 10 returns
\* normally to the dispatcher, and the flag is set only by a call with limit 10.
C6_EveryOtherLimitRaises ==
    /\ \A f \in Frames : \A c \in Completed(f) :
          c.name = "list_entries" => ListLimit(c) = MANDATED_LIMIT
    /\ sim.boot_seen_list_entries => <<"list_entries", "10">> \in sc.observed

\* C6, amended: a list_entries call with limit 5 never returns normally (the
\* enclosing step raises, the protocol-violation error when the target
\* resolves), that error is raised for limit 5 only, and the flag is set only
\* by a call with limit 10; a call with another limit is passed to the memory
\* service without a violation.
C6_LimitFiveRaises ==
    /\ \A f \in Frames : \A c \in Completed(f) :
          c.name = "list_entries" => ListLimit(c) # VIOLATION_LIMIT
    /\ \A f \in Frames :
          f.pc = "raised" /\ f.err = "RuntimeError_list_entries_limit" =>
             /\ RaisedAt(f).name = "list_entries"
             /\ ListLimit(RaisedAt(f)) = VIOLATION_LIMIT
    /\ \A f \in Frames :
          /\ f.pc = "raised"
          /\ f.err # "ValueError_memory_id"
          /\ f.idx <= Len(f.calls)
          /\ RaisedAt(f).name = "list_entries"
          /\ ListLimit(RaisedAt(f)) = VIOLATION_LIMIT
          => f.err = "RuntimeError_list_entries_limit"
    /\ sim.boot_seen_list_entries => <<"list_entries", "10">> \in sc.observed

\* a step has raised the protocol violation and the flag is not set
C6_Witness ==
    /\ \E f \in Frames :
          f.pc = "raised" /\ f.err = "RuntimeError_list_entries_limit"
    /\ ~sim.boot_seen_list_entries

\* what close_session has sent: the attempts' prompts and the explanation prompt
ClosePromptsSent ==
    Cardinality(UserTurns(MSG_SHUTDOWN)) + Cardinality(UserTurns(MSG_REMINDER))
        + Cardinality(UserTurns(MSG_NUDGE))

ExhaustedAsSpecified ==
    /\ lastOp.status = "raised"
    /\ lastOp.err = "RuntimeError_no_put_context"
    /\ lastOp.attempts = MAX_TURNS
    /\ ClosePromptsSent = MAX_TURNS
    /\ Cardinality(UserTurns(MSG_EXPLAIN)) =
          IF lastOp.request_explanation THEN 1 ELSE 0
    /\ lastOp.explain_status = "returned" /\ lastOp.explain_reply # <<>> =>
          lastOp.explanation = lastOp.explain_reply
    /\ lastOp.explain_status # "returned" => lastOp.explanation = <<>>
    /\ lastOp.explanation # <<>> =>
          \E e \in UserTurns(MSG_EXPLAIN) : \E i \in (e + 1)..Len(sim.history) :
              sim.history[i] = AssistantText(lastOp.explanation)

\* C7 as stated: whenever no snapshot write was executed during a
\* close_session call (and neither the provider nor the memory service
\* failed), the call ran 10 attempt turns, then one explanation turn when
\* requested, and raised the RuntimeError carrying the explanation.
C7_NoSnapshotMeansTenAttempts ==
    /\ lastOp.op = "close"
    /\ lastOp.puts = 0
    /\ lastOp.err \notin {"ProviderError", "ServiceError"}
    => ExhaustedAsSpecified

\* C7, amended: when every attempt turn of a close_session call returns and
\* no snapshot write is executed during the call, it runs exactly 10 attempt
\* turns, then exactly one explanation turn when requested, and raises the
\* RuntimeError, which carries the explanation turn's reply when that turn
\* returned one and is raised as well when that turn failed; an attempt turn
\* that raises ends close_session with that error instead.
C7_ExhaustionAfterTenReturnedAttempts ==
    /\ lastOp.op = "close" /\ lastOp.puts = 0 /\ ~lastOp.attempt_raised
          => ExhaustedAsSpecified
    /\ lastOp.op = "close" /\ lastOp.err = "RuntimeError_no_put_context"
          => ExhaustedAsSpecified
    /\ lastOp.op = "close" /\ lastOp.attempt_raised =>
          /\ lastOp.status = "raised"
          /\ lastOp.err # "RuntimeError_no_put_context"
          /\ Cardinality(UserTurns(MSG_EXPLAIN)) = 0

\* close_session has raised after ten attempts and an explanation turn that
\* returned a reply, no snapshot write having been executed
C7_Witness ==
    /\ lastOp.op = "close"
    /\ lastOp.puts = 0
    /\ lastOp.attempts = MAX_TURNS
    /\ lastOp.explain_status = "returned"
    /\ lastOp.explanation # <<>>

\* C8 as stated: when close_session returns normally, exactly one snapshot
\* write was executed during the call.
C8_ExactlyOneSnapshot ==
    lastOp.op = "close" /\ lastOp.status = "returned" => lastOp.puts = 1

\* C8, amended: close_session ends by returning or by raising after at most 10
\* attempt turns, and when it returns normally at least one snapshot write was
\* executed against the memory service during the call, one of them in the
\* last attempt.
C8_AtLeastOneSnapshot ==
    /\ closer.attempt <= MAX_TURNS
    /\ lastOp.op = "close" =>
          /\ lastOp.status \in {"returned", "raised"}
          /\ lastOp.attempts \in 1..MAX_TURNS
    /\ lastOp.op = "close" /\ lastOp.status = "returned" =>
          /\ lastOp.puts >= 1
          /\ lastOp.attempt_puts >= 1

\* close_session has returned after two snapshot writes
C8_Witness ==
    /\ lastOp.op = "close"
    /\ lastOp.status = "returned"
    /\ lastOp.puts = 2

NewResults(f) ==
    {i \in HistoryIndexes("tool_result") : i > f.h0}

OwnEntries(f) ==
    {i \in 1..Len(sim.history) :
        \E k \in 1..Len(f.tus) : sim.history[i].id = f.tus[k].id}

\* C9 as stated: when a step has raised for an add_entry without summary, the
\* history holds no tool-result entry that was not there before the step.
C9_NoNewToolResult ==
    \A f \in Frames :
        f.pc = "raised" /\ f.err = "ValueError_summary" => NewResults(f) = {}

\* C9, amended: an add_entry whose summary is missing or empty never returns
\* normally: the enclosing step raises the validation error, and the history
\* holds no tool-use or tool-result entry for any invocation of the response
\* that carried it (entries of the diagnostic turn may have been added).
C9_NoResultForTheRaisingResponse ==
    /\ \A f \in Frames : \A c \in Completed(f) : ~MissingSummary(c)
    /\ \A f \in Frames :
          f.pc = "raised" /\ f.idx <= Len(f.calls) /\ MissingSummary(RaisedAt(f))
             => f.err = "ValueError_summary"
    /\ \A f \in Frames :
          f.pc = "raised" /\ f.err = "ValueError_summary" =>
             /\ MissingSummary(RaisedAt(f))
             /\ OwnEntries(f) = {}

\* a step has raised the validation error after its diagnostic turn had
\* added a tool-result entry
C9_Witness ==
    \E f \in Frames :
        f.pc = "raised" /\ f.err = "ValueError_summary" /\ NewResults(f) # {}

Canonical(r) ==
    IF r = LEGACY_1 THEN SPEAKER_1 ELSE IF r = LEGACY_2 THEN SPEAKER_2 ELSE r

GivenRole(c) == IF c.role # <<>> THEN c.role ELSE c.tags_role

RoleErrors == {"ValueError_role", "ValueError_non_canonical_role"}

\* C10: an add_entry whose role is 'speaker 1' or 'speaker 2' is not rejected
\* for its role and is persisted with role speaker_1 or speaker_2, as the role
\* and inside the tags; an add_entry whose role is outside {speaker_1,
\* speaker_2} after that normalisation never returns normally (the step
\* raises) and nothing is persisted with such a role.
C10_LegacyRoleNormalised ==
    /\ \A i \in 1..Len(sc.adds) :
          /\ sc.adds[i].role \in {SPEAKER_1, SPEAKER_2}
          /\ sc.adds[i].role = Canonical(sc.adds[i].sent_role)
          /\ sc.adds[i].tags_role = sc.adds[i].role
    /\ \A f \in Frames :
          /\ f.pc \in {"raised", "nested"}
          /\ f.idx <= Len(f.calls)
          /\ RaisedAt(f).name = "add_entry"
          /\ GivenRole(RaisedAt(f)) \in {LEGACY_1, LEGACY_2}
          => /\ f.err \notin RoleErrors
             /\ f.site # "bad_role"
    /\ \A f \in Frames : \A c \in Completed(f) :
          c.name = "add_entry" /\ GivenRole(c) # <<>> =>
             Canonical(GivenRole(c)) \in {SPEAKER_1, SPEAKER_2}

\* entries sent as 'speaker 1' and, inside the tags, as 'speaker 2' were
\* persisted, and a step has raised for a role outside the set
C10_Witness ==
    /\ \E i \in 1..Len(sc.adds) : sc.adds[i].sent_role \in {LEGACY_1, LEGACY_2}
    /\ lastOp.err = "ValueError_non_canonical_role"

\* the diagnostic turns of the violations the engine treats as fatal, and the
\* error each handler raises after them
FatalSites == {"missing_summary", "bad_role", "list5_explain", "list5_follow"}

SiteError(site) ==
    CASE site = "missing_summary" -> "ValueError_summary"
      [] site = "bad_role" -> "ValueError_non_canonical_role"
      [] OTHER -> "RuntimeError_list_entries_limit"

FatalCall(c) ==
    \/ MissingSummary(c)
    \/ c.name = "add_entry" /\ GivenRole(c) # <<>>
          /\ Canonical(GivenRole(c)) \notin {SPEAKER_1, SPEAKER_2}
    \/ c.name = "list_entries" /\ ListLimit(c) = VIOLATION_LIMIT

NoFatalCallCompleted ==
    \A f \in Frames : \A c \in Completed(f) : ~FatalCall(c)

\* the handler that awaited the diagnostic turn has raised err
HandlerRaised(err) ==
    /\ Len(stack') = Len(stack) - 1
    /\ stack'[Len(stack')].pc = "raised"
    /\ stack'[Len(stack')].err = err

\* the handler that awaited the first question asks the second one
FollowUpAsked ==
    /\ Top.pc = "returned"
    /\ Len(stack') = Len(stack)
    /\ stack'[Len(stack') - 1].pc = "nested"
    /\ stack'[Len(stack') - 1].site = "list5_follow"

\* C11: a diagnostic turn is observational only: after the diagnostic turn of
\* a fatal violation (add_entry without summary, add_entry with a
\* non-canonical role, list_entries with the page size the engine rejects)
\* has ended, whether it returned a reply or raised, the handler raises the
\* violation's own error (for list_entries after one more question when the
\* first returned), and no such call ever returns normally to the dispatcher.
C11_DiagnosticNeverSuppresses ==
    /\ NoFatalCallCompleted
    /\ [][/\ NoFatalCallCompleted'
          /\ \A site \in FatalSites :
                ChildEnded(site) =>
                   \/ HandlerRaised(SiteError(site))
                   \/ site = "list5_explain" /\ FollowUpAsked]_vars

\* a step has raised the violation's error after a diagnostic turn that
\* itself raised: the history ends with the diagnostic prompt, unanswered
C11_Witness ==
    /\ stack # <<>>
    /\ Top.pc = "raised"
    /\ Top.err \in {SiteError(site) : site \in FatalSites}
    /\ \E site \in FatalSites :
          sim.history[Len(sim.history)] = UserText(DiagPrompt(site))

OverloadsOnly ==
    \A i \in 1..Len(retry.kinds) : retry.kinds[i] = "overloaded"

\* 60, 120, 240, then 300
ExpectedOverloadDelay(i) ==
    IF i = 1 THEN 60 ELSE IF i = 2 THEN 120 ELSE IF i = 3 THEN 240 ELSE 300

\* C12: for one provider call that keeps failing with capacity-overload, the
\* delays before successive retries are 60, 120, 240 and then at most 300
\* seconds; the deadline is set once, 600 seconds after the start of the call,
\* and never moved; a retry is made only if its delay ends no later than the
\* deadline; so the call is retried only finitely often (three times at most)
\* and the error then propagates out of step.
C12_OverloadBackoffBounded ==
    /\ retry.pc # "idle" => retry.max_deadline = 600
    /\ retry.pc = "sleeping" => retry.wake <= retry.max_deadline
    /\ OverloadsOnly =>
          /\ \A i \in 1..Len(retry.slept) :
                retry.slept[i] = ExpectedOverloadDelay(i)
          /\ Len(retry.slept) <= 3
          /\ retry.pc \in {"calling", "done", "raised"} =>
                retry.calls = Len(retry.slept) + 1
    /\ retry.pc = "raised" /\ retry.err = "overloaded" /\ retry.reissues = 0 =>
          retry.raised_at + retry.overload_backoff > retry.max_deadline

\* the overload has propagated after retries 60, 120 and 240 seconds later
C12_Witness ==
    /\ retry.pc = "raised"
    /\ retry.err = "overloaded"
    /\ retry.slept = <<60, 120, 240>>

\* C13: a provider error that is neither capacity-overload (status 529 or
\* 500) nor throughput-limit, raised by the model call of a turn, propagates
\* out of step at once: no back-off sleep is taken for it and the call is not
\* made again.
C13_OtherErrorPropagatesAtOnce ==
    [][/\ \A i \in 1..Len(retry'.kinds) : retry'.kinds[i] # "other"
       /\ retry'.pc = "raised" /\ retry'.err = "other" /\ retry.pc # "raised" =>
             /\ retry.pc \in {"calling", "continuing"}
             /\ retry'.now = retry.now
             /\ retry'.slept = retry.slept
             /\ retry'.calls = retry.calls
       /\ retry.pc = "raised" => retry' = retry]_vars

\* another error has propagated from a call made after a back-off
C13_Witness ==
    /\ retry.pc = "raised"
    /\ retry.err = "other"
    /\ retry.calls = 2

\* the frames whose response has been parsed
ParsedFrames ==
    {f \in Frames : f.pc \in {"dispatch", "nested", "returned"}
                    \/ (f.pc = "raised" /\ f.err # "ProviderError")}

TextSegments(blocks) ==
    {i \in 1..Len(blocks) : blocks[i].type \in {"None", "text"}}

\* the stripped text of the last text segment, empty when there is none
LastText(blocks) ==
    IF TextSegments(blocks) = {} THEN <<>>
    ELSE Strip(blocks[CHOOSE i \in TextSegments(blocks) :
                         \A j \in TextSegments(blocks) : j <= i].text)

\* the entry that follows the user turn of frame f is its assistant text
AssistantTurnOf(f, txt) ==
    /\ Len(sim.history) >= f.h0 + 2
    /\ sim.history[f.h0 + 2] = AssistantText(txt)

NoAssistantTurnOf(f) ==
    Len(sim.history) >= f.h0 + 2 =>
        ~(sim.history[f.h0 + 2].role = "assistant"
          /\ sim.history[f.h0 + 2].type = "text")

\* C14 as stated: the text step returns is the first non-empty text segment
\* of the response (empty when there is none), and that text is the
\* assistant turn appended to history.
C14_ReplyIsFirstNonEmptyText ==
    \A f \in ParsedFrames :
        /\ f.reply = FirstNonEmptyText(f.blocks)
        /\ f.reply # <<>> => AssistantTurnOf(f, f.reply)

\* C14, amended: the text step returns is the stripped text of the last text
\* segment of the response (the segments of all partial responses counted),
\* empty when the response has no text segment or when its last one holds
\* only whitespace; when it is not empty, exactly that text is appended to
\* history as the assistant turn, and otherwise no assistant text is appended.
C14_ReplyIsLastText ==
    /\ \A f \in ParsedFrames :
          /\ f.reply = LastText(f.blocks)
          /\ f.reply # <<>> => AssistantTurnOf(f, f.reply)
          /\ f.reply = <<>> => NoAssistantTurnOf(f)
    /\ lastOp.op = "step" /\ lastOp.status = "returned" /\ stack = <<>>
       /\ lastOp.reply # <<>> =>
          \E i \in 1..Len(sim.history) :
              sim.history[i] = AssistantText(lastOp.reply)

\* a step has returned the second of two different non-empty text segments
C14_Witness ==
    \E f \in ParsedFrames :
        /\ f.pc = "returned"
        /\ FirstNonEmptyText(f.blocks) # <<>>
        /\ LastText(f.blocks) # <<>>
        /\ f.reply # FirstNonEmptyText(f.blocks)

\* C15: no history entry with role assistant has empty text content: a
\* response with no text, or with only empty or whitespace text, adds no
\* assistant text entry to history.
C15_NoEmptyAssistantTurn ==
    /\ \A i \in 1..Len(sim.history) :
          sim.history[i].role = "assistant" /\ sim.history[i].type = "text" =>
             /\ sim.history[i].text # <<>>
             /\ Strip(sim.history[i].text) # <<>>
    /\ \A f \in ParsedFrames :
          (\A i \in TextSegments(f.blocks) : Strip(f.blocks[i].text) = <<>>)
             => NoAssistantTurnOf(f)

\* a step has returned from a response whose only text is whitespace
C15_Witness ==
    \E f \in ParsedFrames :
        /\ f.pc = "returned"
        /\ TextSegments(f.blocks) # {}
        /\ \A i \in TextSegments(f.blocks) : Strip(f.blocks[i].text) = <<>>

\* the tool invocations of the content blocks, in the order received
RECURSIVE AllInvocations(_)
AllInvocations(blocks) ==
    IF blocks = <<>> THEN <<>>
    ELSE Head(blocks).calls \o AllInvocations(Tail(blocks))

\* kwargs["max_tokens"] of the request frame f has issued last
Budget(f) == MAX_TOKENS + BUDGET_STEP * f.bumps

\* nothing is dispatched or appended while the response is awaited, and what
\* is dispatched afterwards is every invocation received, once and in order
ContinuationInv ==
    /\ \A f \in Frames :
          f.pc = "call" =>
             /\ f.calls = <<>>
             /\ f.idx = 1
             /\ sim.history = SubSeq(sim.history, 1, f.h0)
                                 \o <<sim.history[f.h0 + 1]>>
    /\ \A f \in ParsedFrames :
          /\ f.calls = AllInvocations(f.blocks)
          /\ f.idx \in 1..(Len(f.calls) + 1)
          /\ f.pc = "returned" => f.idx = Len(f.calls) + 1

\* a partial response has been received by the step in progress
ContinuationStep ==
    /\ stack # <<>>
    /\ Top.pc = "call"
    /\ Len(stack') = Len(stack)
    /\ stack'[Len(stack')].pc = "call"
    /\ stack' # stack

\* C16: while the provider's stop indicator is pause_turn, step re-issues the
\* request with the same history and a strictly larger budget each time, and
\* it neither dispatches a tool invocation nor appends to history nor calls
\* the memory service until a response without the indicator arrives; every
\* tool invocation received across the partial responses is then handed to
\* the dispatcher exactly once, in the order received.
C16_ContinuationReissues ==
    /\ ContinuationInv
    /\ [][/\ ContinuationInv'
          /\ ContinuationStep =>
                /\ Budget(stack'[Len(stack')]) > Budget(Top)
                /\ sim' = sim
                /\ sc' = sc
                /\ Len(stack'[Len(stack')].blocks) >= Len(Top.blocks)]_vars

\* a step has returned after two partial responses, their invocations run
C16_Witness ==
    \E f \in Frames :
        /\ f.pc = "returned"
        /\ f.bumps = 2
        /\ Len(f.calls) >= 2

\* C17: for every session the ingestor replays, no conversation-content turn
\* is sent to step before is_bootstrap_complete is true: after the bootstrap
\* turn the ingestor sends at most 6 polling turns, none once the predicate
\* is true, and if the predicate is still false after the 6th poll it raises
\* a fatal error without having sent a content turn or called close_session.
C17_NoContentBeforeBootstrap ==
    /\ ~ingest.early
    /\ ingest.content > 0 => ingest.complete
    /\ ingest.polls <= 6
    /\ ingest.idle_polls = 0
    /\ ingest.pc \in {"replay", "closed"} => ingest.complete
    /\ ingest.closes > 0 => ingest.complete
    /\ ingest.err = "RuntimeError_bootstrap" =>
          /\ ingest.polls = 6
          /\ ~ingest.complete
          /\ ingest.content = 0
          /\ ingest.closes = 0
    /\ ingest.polls = 6 /\ ~ingest.complete => ingest.pc \in {"waiting", "raised"}

\* the second session was aborted after six polling turns
C17_Witness ==
    /\ ingest.session = 2
    /\ ingest.err = "RuntimeError_bootstrap"
    /\ ingest.polls = 6

\* the create_memory calls made under title t, and the identifier the last
\* of them returned
MadeUnder(t) ==
    {i \in 1..Len(resolver.made) : resolver.made[i][1] = t}

LastMadeUnder(t) ==
    resolver.made[CHOOSE i \in MadeUnder(t) : \A j \in MadeUnder(t) : j <= i][2]

\* the session-scoped default: the identifier created last, else the builder's
SessionDefault ==
    IF resolver.made # <<>> THEN resolver.made[Len(resolver.made)][2]
    ELSE resolver.builder0

IsLiteralId(c) == c # NoStr /\ c.len = 36 /\ c.hex

\* the first three rules of the resolution
ResolvedByRule ==
    IF IsLiteralId(resolver.target)
    THEN resolver.pc = "resolved" /\ resolver.result = resolver.target
    ELSE IF MadeUnder(resolver.target) # {}
    THEN resolver.pc = "resolved"
         /\ resolver.result = LastMadeUnder(resolver.target)
    ELSE SessionDefault # NoStr =>
            resolver.pc = "resolved" /\ resolver.result = SessionDefault

NothingToResolveWith ==
    /\ ~IsLiteralId(resolver.target)
    /\ MadeUnder(resolver.target) = {}
    /\ SessionDefault = NoStr

C19_TitleResolvesToCreatedId ==
    resolver.pc # "idle" /\ MadeUnder(resolver.target) # {} =>
       /\ resolver.pc = "resolved"
       /\ resolver.result = LastMadeUnder(resolver.target)

\* the dispatcher is at a call, whose name has or has not a handler
AtCall == stack # <<>> /\ Top.pc = "dispatch" /\ Top.idx <= Len(Top.calls)

\* the branch of the dispatcher's if/elif chain that is taken for a name
HandlerRuns(name) ==
    CASE name = "add_entry" -> ENABLED ExecAddEntry
      [] name = "put_context" -> ENABLED ExecPutContext
      [] name = "list_entries" -> ENABLED ExecListEntries
      [] name = "create_memory" -> ENABLED ExecCreateMemory
      [] name = "get_context" -> ENABLED ExecGetContext
      [] name = "await_consistency" -> ENABLED ExecAwaitConsistency
      [] name = "get_asset" -> ENABLED ExecGetAsset
      [] name \in {"search_memories", "list_assets"} -> ENABLED ExecReadOnly
      [] OTHER -> ENABLED ExecNoOp

Branches ==
    {"add_entry", "put_context", "list_entries", "create_memory",
     "get_context", "await_consistency", "get_asset", "search_memories",
     "get_user"}

\* C20: a tool invocation whose name is none of the handler names is ignored:
\* the dispatcher goes on to the next call without an error, the memory
\* service is not called, and the bootstrap flags, the alias map and the asset
\* cache stay as they were; a known name runs exactly one handler.
C20_UnknownNameIgnored ==
    [][AtCall =>
         /\ CurCall.name \notin HandlerNames =>
               /\ stack' = Advanced
               /\ sc' = sc
               /\ sim' = sim
         /\ CurCall.name \in HandlerNames =>
               Cardinality({b \in Branches : HandlerRuns(b)}) = 1
               /\ HandlerRuns(CurCall.name)]_vars

\* the dispatcher has gone past a call of an unknown name
C20_Witness ==
    \E i \in 1..Len(stack) :
       /\ stack[i].calls # <<>>
       /\ stack[i].calls[1].name = "frobnicate"
       /\ stack[i].idx > 1
       /\ stack[i].pc # "raised"

\* the handler running at the top of the stack ended with a failure of the
\* memory service
ServiceFailed == Top.pc = "raised" /\ Top.err = "ServiceError"

\* an add_entry invocation that passes the handler's validation
PassesValidation(c) ==
    /\ c.summary > 0
    /\ c.raw_entry > 0
    /\ NormaliseRole(RoleValue(c, sim.history)) \in AllowedRoles
    /\ Resolved(c) # NoStr

WritesOnlyByInvocation ==
    /\ sc'.puts # sc.puts =>
          /\ Dispatching("put_context")
          /\ Resolved(CurCall) # NoStr
          /\ sc'.puts = sc.puts + 1
          /\ sc'.adds = sc.adds
    /\ sc'.adds # sc.adds =>
          /\ Dispatching("add_entry")
          /\ PassesValidation(CurCall)
          /\ sc'.adds = Append(sc.adds, sc'.adds[Len(sc'.adds)])
          /\ sc'.puts = sc.puts
    /\ Dispatching("put_context") /\ Resolved(CurCall) # NoStr /\ ~ServiceFailed' =>
          sc'.puts = sc.puts + 1
    /\ Dispatching("add_entry") /\ PassesValidation(CurCall) /\ ~ServiceFailed' =>
          Len(sc'.adds) = Len(sc.adds) + 1
    /\ stack # <<>> /\ Top.pc = "call" => sc' = sc

C22_OnlyValidEntriesWritten ==
    \A i \in 1..Len(sc.adds) :
       /\ sc.adds[i].summary > 0
       /\ sc.adds[i].summary <= SUMMARY_MAX
       /\ sc.adds[i].raw_entry > 0
       /\ sc.adds[i].role \in AllowedRoles

\* the name of the invocation whose tool_use entry carries id
NameOfToolUse(id) ==
    LET i == CHOOSE j \in 1..Len(sim.history) :
                sim.history[j].type = "tool_use" /\ sim.history[j].id = id
    IN sim.history[i].name

\* the payloads a result of an invocation of tool `name` can have
OwnPayloads(name) ==
    CASE name = "create_memory" -> {"", UUID_A.s, UUID_B.s, UUID_C.s}
      [] name = "get_context" -> {"context", ""}
      [] name = "list_entries" -> {"entries", "[]"}
      [] name = "search_memories" -> {"matches", "{}"}
      [] OTHER -> {"{}"}

\* C23: every tool-result entry of the history reports the result of the
\* invocation whose tool-use id it carries: its status is "enqueued" exactly
\* for add_entry and put_context, and its payload is that of the invocation's
\* own tool name.
C23_ResultReportsOwnInvocation ==
    \A i \in 1..Len(sim.history) :
       sim.history[i].type = "tool_result" =>
          LET name == NameOfToolUse(sim.history[i].id) IN
          /\ sim.history[i].status = "enqueued" <=> name \in {"add_entry", "put_context"}
          /\ sim.history[i].payload \in OwnPayloads(name)

\* C24 as stated: at most one step invocation of the session is in flight;
\* steps never nest.
C24_AtMostOneStepInFlight == Len(stack) <= 1

\* every invocation but the innermost is suspended in a handler that awaits
\* the diagnostic turn above it, which began after it
Suspended ==
    \A i \in 1..(Len(stack) - 1) :
       /\ stack[i].pc = "nested"
       /\ stack[i].site # ""
       /\ stack[i].h0 < stack[i + 1].h0

\* C24, amended: the step invocations in flight on a session form a stack:
\* the engine starts a step while another is unfinished only as a diagnostic
\* turn a handler of that step awaits, every invocation but the innermost
\* is suspended, and a suspended invocation goes on only when the turn it
\* awaits has ended.
C24_StepsNestButNeverOverlap ==
    /\ Suspended
    /\ [][/\ Suspended'
          /\ \A i \in 1..(Len(stack) - 1) :
                (i > Len(stack') \/ stack'[i] # stack[i]) =>
                   /\ i = Len(stack) - 1
                   /\ Top.pc \in {"returned", "raised"}
          /\ Len(stack') > Len(stack) =>
                /\ Len(stack') = Len(stack) + 1
                /\ stack'[Len(stack')].pc = "call"
                /\ stack # <<>> => Top.pc = "dispatch"]_vars

\* a diagnostic turn runs inside a diagnostic turn of a top-level step
C24_Witness ==
    /\ Len(stack) = 3
    /\ stack[3].pc = "returned"

\* h is a prefix of g
IsPrefix(h, g) == Len(h) <= Len(g) /\ SubSeq(g, 1, Len(h)) = h

\* C25: the history is append-only: whatever the engine does during a step
\* or close_session call, whether the call returns or raises, the history
\* before is a prefix of the history after, and every invocation in flight
\* began on a history no longer than the present one.
C25_HistoryAppendOnly ==
    [][/\ IsPrefix(sim.history, sim'.history)
       /\ \A i \in 1..Len(stack') : stack'[i].h0 < Len(sim'.history)]_vars

\* a call has raised after entries had been appended during it
C25_Witness ==
    /\ lastOp.status = "raised"
    /\ Len(sim.history) >= 3

\* C26: the diagnostic turns of a top-level step do not nest without bound
\* whatever the model answers: a handler that awaits the diagnostic turn of a
\* violation is never entered again, for the same violation, from within that
\* turn or a turn nested in it.
C26_DiagnosticsNestBounded ==
    \A i, j \in 1..Len(stack) :
       i < j /\ stack[i].pc = "nested" /\ stack[j].pc = "nested" =>
          stack[i].site # stack[j].site

\* the diagnostic turns issued so far for an add_entry before list_entries
AddBeforeListTurns ==
    {i \in 1..Len(sim.history) :
        sim.history[i] = UserText(DiagPrompt("add_before_list"))}

\* the entries written while 'recent entries listed' was false
UnlistedAdds == {i \in 1..Len(sc.adds) : ~sc.adds[i].listed}

\* the handler that awaited the advisory diagnostic turn goes on with the next
\* call of its response, whether that turn returned or raised
AdvisoryNeverRaises ==
    ChildEnded("add_before_list") =>
       /\ Len(stack') = Len(stack) - 1
       /\ stack'[Len(stack')].pc = "dispatch"
       /\ stack'[Len(stack')].idx = Parent.idx + 1
       /\ stack'[Len(stack')].err = ""

\* C27 as stated: every add_entry executed while 'recent entries listed' is
\* false is written, gets one diagnostic turn, and does not make step raise.
C27_EveryUnlistedAddIsDiagnosed ==
    /\ Cardinality(AddBeforeListTurns) = Cardinality(UnlistedAdds)
    /\ [][/\ Cardinality(AddBeforeListTurns') = Cardinality(UnlistedAdds')
          /\ AdvisoryNeverRaises]_vars

AdvisoryOnce ==
    /\ Cardinality(AddBeforeListTurns) =
          IF \E i \in UnlistedAdds : sc.adds[i].before_list THEN 1 ELSE 0
    /\ \A i \in 1..Len(stack) :
          stack[i].pc = "nested" /\ stack[i].site = "add_before_list" =>
             \E k \in UnlistedAdds : sc.adds[k].before_list

\* C27, amended: an add_entry executed while 'recent entries listed' is false
\* is written to the memory service and never makes step raise; the engine
\* issues a diagnostic turn for it only the first time this happens after
\* get_context has been observed, one turn in the whole session, and the
\* handler goes on also when that turn fails.
C27_AdvisoryOnceAfterGetContext ==
    /\ AdvisoryOnce
    /\ [][AdvisoryOnce' /\ AdvisoryNeverRaises]_vars

\* the advisory diagnostic turn has failed and its handler is about to go on
C27_Witness ==
    /\ ChildEnded("add_before_list")
    /\ Top.pc = "raised"
    /\ UnlistedAdds # {}

\* the back-off of the class of the error that left step
BackoffOf(r) ==
    IF r.err = "overloaded" THEN r.overload_backoff ELSE r.rate_backoff

\* C28: a capacity-overload or throughput-limit error of any model call of a
\* turn, the re-issues after pause_turn included, is answered by a back-off
\* and leaves step only when the next back-off would end after the deadline.
C28_TransientErrorsRecovered ==
    retry.pc = "raised" /\ retry.err \in {"overloaded", "rate_limited"} =>
       retry.raised_at + BackoffOf(retry) > retry.max_deadline

\* C29: when the step of a close_session attempt raises, close_session ends
\* at once with that error: no further attempt, reminder or explanation turn
\* is issued (nothing is appended to history, no step is begun, the memory
\* service is not called).
C29_AttemptErrorPropagates ==
    [][closer.phase = "attempt" /\ Len(stack) = 1 /\ Top.pc = "raised" =>
          /\ stack' = <<>>
          /\ closer'.phase = "idle"
          /\ sim' = sim
          /\ sc' = sc
          /\ lastOp'.op = "close"
          /\ lastOp'.status = "raised"
          /\ lastOp'.err = Top.err
          /\ lastOp'.attempts = closer.attempt
          /\ lastOp'.explain_turns = 0]_vars

\* close_session has ended with the error its second attempt raised, which
\* was not a provider error
C29_Witness ==
    /\ lastOp.op = "close"
    /\ lastOp.attempt_raised
    /\ lastOp.attempts = 2
    /\ lastOp.err \notin {"ProviderError", "RuntimeError_no_put_context"}

\* the back-off sleeps taken for errors of one class, by position in slept
SleepsOf(kind) == {i \in 1..Len(retry.slept) : retry.kinds[i] = kind}

\* the rank of sleep i among the sleeps of its class
RankOf(i) == Cardinality({j \in SleepsOf(retry.kinds[i]) : j <= i})

\* 60, 120, 240, 480, then 600
ExpectedRateDelay(k) ==
    IF k = 1 THEN 60 ELSE IF k = 2 THEN 120 ELSE IF k = 3 THEN 240
    ELSE IF k = 4 THEN 480 ELSE 600

ExpectedDelay(kind, k) ==
    IF kind = "overloaded" THEN ExpectedOverloadDelay(k) ELSE ExpectedRateDelay(k)

\* the delays of a class follow its own schedule, whatever the failures of the
\* other class in between
DelaysIndependent ==
    /\ \A i \in 1..Len(retry.slept) :
          retry.slept[i] = ExpectedDelay(retry.kinds[i], RankOf(i))
    /\ retry.pc \notin {"idle"} =>
          /\ retry.overload_backoff =
                ExpectedOverloadDelay(Cardinality(SleepsOf("overloaded")) + 1)
          /\ retry.rate_backoff =
                ExpectedRateDelay(Cardinality(SleepsOf("rate_limited")) + 1)

\* a failure of the loop's call leaves step before the third retry of its
\* class was made
DeniedEarly ==
    /\ retry.pc = "raised"
    /\ retry.reissues = 0
    /\ retry.err \in {"overloaded", "rate_limited"}
    /\ Cardinality(SleepsOf(retry.err)) < 3

\* C30 as stated: the two back-off trackers are independent, delay and
\* deadline: the delay before the k-th retry of a class and whether that retry
\* is allowed depend only on the failures of that class (three retries of a
\* class fit into its 600 seconds).
C30_TrackersIndependent == DelaysIndependent /\ ~DeniedEarly

\* C30, amended: the delays of the two classes are independent, each class
\* doubling its own delay from 60 seconds up to its own cap; the deadline is
\* one, fixed at the start of the call and shared: a retry of either class is
\* allowed exactly when its delay ends no later than that deadline, so the
\* sleeps taken for one class use up the time left for the other.
C30_DelaysIndependentDeadlineShared ==
    /\ DelaysIndependent
    /\ retry.pc # "idle" => retry.max_deadline = DEADLINE_SECONDS
    /\ retry.pc = "sleeping" =>
          retry.wake = retry.now + retry.slept[Len(retry.slept)]
          /\ retry.wake <= retry.max_deadline
    /\ retry.pc = "raised" /\ retry.reissues = 0
          /\ retry.err \in {"overloaded", "rate_limited"} =>
             retry.raised_at + BackoffOf(retry) > retry.max_deadline

\* a throughput-limit error has left step before its third retry, after
\* sleeps taken for overloads
C30_Witness ==
    /\ DeniedEarly
    /\ retry.err = "rate_limited"
    /\ SleepsOf("overloaded") # {}

\* frame f ended with an error raised while its tool calls were dispatched
RaisedInDispatch(f) ==
    f.pc = "raised" /\ f.calls # <<>> /\ f.err # "ProviderError"

DispatchErrorEndsStep ==
    \A f \in Frames :
       /\ f.err # "" => f.pc = "raised"
       /\ RaisedInDispatch(f) =>
             /\ f.idx <= Len(f.calls)
             /\ OwnEntries(f) = {}

\* C31: when a handler raises while the invocations of a response are
\* dispatched, the step ends with the error at that invocation: what the
\* invocations before it wrote to the memory service stays written, the
\* invocations after it are never executed (the frame does nothing more and
\* the memory service is not called for it), and the history holds no
\* tool-use or tool-result entry for any invocation of the response.
C31_RaisingHandlerEndsDispatch ==
    /\ DispatchErrorEndsStep
    /\ [][/\ DispatchErrorEndsStep'
          /\ sc'.puts >= sc.puts
          /\ IsPrefix(sc.adds, sc'.adds)
          /\ stack # <<>> /\ Top.pc = "raised" =>
                /\ sc' = sc
                /\ \/ Len(stack') < Len(stack)
                   \/ /\ Len(stack') = Len(stack)
                      /\ stack'[Len(stack')].pc = "call"]_vars

\* a step has raised at the second invocation of its response after the
\* first one had written the snapshot
C31_Witness ==
    \E f \in Frames :
       /\ RaisedInDispatch(f)
       /\ f.idx = 2
       /\ f.calls[1].name = "put_context"
       /\ sc.puts = 1
       /\ OwnEntries(f) = {}

\* the bootstrap flags of the session
BootFlags(s) ==
    <<s.boot_seen_get_context, s.boot_seen_list_entries, s.boot_seen_ctx_rules,
      s.boot_assets_downloaded>>

\* C32: whenever a get_context, list_entries or get_asset handler raises
\* (resolution error, memory-service error or empty asset), the bootstrap
\* flags are the same after the failed call as before it.
C32_FailedCallLeavesFlags ==
    [][/\ AtCall
       /\ CurCall.name \in {"get_context", "list_entries", "get_asset"}
       /\ Len(stack') = Len(stack)
       /\ stack'[Len(stack')].pc = "raised"
       => BootFlags(sim') = BootFlags(sim)]_vars

\* C33: for an await_consistency call whose target resolves, the handler
\* returns whether the wait of the memory service succeeded or failed: the
\* step does not raise, and nothing the echo is built from (the session's
\* fields, the calls and tool-use blocks of the step) differs between the two
\* outcomes, so the tool-result reports what it reports for a successful wait.
C33_FailedWaitNotSurfaced ==
    [][Dispatching("await_consistency") /\ Resolved(CurCall) # NoStr =>
          /\ stack' = Advanced
          /\ sim' = sim
          /\ sc' = sc
          /\ closer' = closer]_vars

\* the first step of a session has returned, with the echo of its
\* await_consistency call, after the wait had failed
C33_Witness ==
    /\ env.harness_steps = 1
    /\ env.service_errors = 1
    /\ ~env.closed
    /\ Len(stack) = 1
    /\ Top.pc = "returned"
    /\ Top.calls # <<>>
    /\ Top.calls[1].name = "await_consistency"
    /\ \E i \in OwnEntries(Top) :
          sim.history[i].type = "tool_result" /\ sim.history[i].status = "OK"

\* the assets the memory service has handed out are the cached ones, and they
\* are the ones marked as downloaded
FetchedAssets == {a \in {"ctx_rules"} : <<"get_asset", a>> \in sc.observed}
AssetBookkeeping ==
    /\ FetchedAssets = sim.asset_cache
    /\ sim.boot_assets_downloaded = sim.asset_cache
    /\ sim.boot_seen_ctx_rules <=> "ctx_rules" \in sim.asset_cache

\* C34: an asset is fetched successfully at most once in a session. The cache
\* only grows; a get_asset for a cached id returns with no call of the memory
\* service (no fetch observed, no service outcome drawn); a get_asset for an
\* id not cached either succeeds, caching the asset and marking it downloaded,
\* or raises with the cache, the downloaded set and the ctx_rules flag
\* unchanged.
C34_AssetFetchedAtMostOnce ==
    /\ AssetBookkeeping
    /\ [][/\ AssetBookkeeping'
          /\ sim.asset_cache \subseteq sim'.asset_cache
          /\ Dispatching("get_asset") /\ CurCall.asset # "" =>
               IF CurCall.asset \in sim.asset_cache
               THEN /\ stack' = Advanced
                    /\ sc' = sc
                    /\ env' = env
                    /\ sim'.asset_cache = sim.asset_cache
               ELSE \/ /\ stack' = Advanced
                       /\ env' = env
                       /\ sim'.asset_cache = sim.asset_cache \cup {CurCall.asset}
                       /\ sim'.boot_assets_downloaded =
                              sim.boot_assets_downloaded \cup {CurCall.asset}
                    \/ /\ stack'[Len(stack')].pc = "raised"
                       /\ env'.service_errors = env.service_errors + 1
                       /\ sc' = sc
                       /\ sim' = sim]_vars

AssetResults ==
    {i \in HistoryIndexes("tool_result") :
        NameOfToolUse(sim.history[i].id) = "get_asset"}

\* two get_asset calls for ctx_rules have been answered in one session whose
\* memory service never failed: the second one from the cache
C34_Witness ==
    /\ env.service_errors = 0
    /\ Cardinality(AssetResults) = 2
    /\ sim.asset_cache = {"ctx_rules"}
    /\ Len(stack) = 1
    /\ Top.pc = "returned"

\* the user turns of the history: each step invocation appends one, at its
\* start, and the history is never rewritten
StepsStarted ==
    {i \in 1..Len(sim.history) :
        sim.history[i].role = "user" /\ sim.history[i].type = "text"}

\* a step invocation begins: a frame waiting for its first provider call
\* is pushed, or takes the place of a finished one
StepBegins ==
    /\ stack' # <<>>
    /\ stack'[Len(stack')].pc = "call"
    /\ \/ stack = <<>>
       \/ Len(stack') > Len(stack)
       \/ Top.pc # "call"

\* C35: the message counter starts at 0, grows by one exactly in the steps
\* that begin a step invocation (a turn of the harness, a diagnostic turn or
\* an attempt of close_session) and changes in no other step, so that it
\* always equals the number of step invocations started.
C35_CounterCountsSteps ==
    /\ sim.message_counter = Cardinality(StepsStarted)
    /\ [][/\ sim'.message_counter = Cardinality(StepsStarted')
          /\ IF StepBegins
             THEN sim'.message_counter = sim.message_counter + 1
             ELSE sim'.message_counter = sim.message_counter]_vars

\* a diagnostic turn runs inside a turn of the harness: two invocations
\* started, the counter at 2
C35_Witness ==
    /\ Len(stack) = 2
    /\ env.harness_steps = 1
    /\ ~env.closed
    /\ sim.message_counter = 2

\* step, line 172: "Updates context every 5 messages"
CONTEXT_UPDATE_EVERY == 5

\* C36: once the session has seen its 5th step invocation and that step has
\* ended, the memory service has received a put_context. (The source has no
\* such write: step calls put_context only through a put_context invocation
\* of the model.)
C36_ContextSavedEveryFive ==
    (sim.message_counter >= CONTEXT_UPDATE_EVERY /\ stack = <<>>) => sc.puts >= 1

\* the assets the prompts of a chat memory stand for
DefaultPromptAssets ==
    {"ctx_rules", "ctx_prompt_chat", "entry_prompt_chat", "summary_prompt_chat"}

\* C37: the step that executes a get_default_prompts invocation sets the
\* ctx_rules flag and puts the four prompt assets into the downloaded set, so
\* that the required assets are among the downloaded ones. (The dispatcher
\* has no handler of that name: the invocation is ignored.)
C37_DefaultPromptsMarkAssets ==
    [][AtCall /\ CurCall.name = "get_default_prompts" =>
          /\ sim'.boot_seen_ctx_rules
          /\ DefaultPromptAssets \subseteq sim'.boot_assets_downloaded
          /\ sim'.boot_required_assets \subseteq sim'.boot_assets_downloaded]_vars

\* a pass through _respect_rate_limit completes: the task leaves the limiter
\* with the timestamp written (line 47)
PassCompletes ==
    /\ limiter.tasks[SoloTask].pc \in {"idle", "sleeping"}
    /\ limiter'.tasks[SoloTask].pc = "jitter"

\* C38: with a single flow of control the last-call timestamp never
\* decreases, every pass through the limiter stamps the instant at which it
\* completes, and that instant is at least one interval after the stamp of
\* the pass before it.
C38_SoloPassesAnIntervalApart ==
    [][/\ limiter'.last_call_ts >= limiter.last_call_ts
       /\ PassCompletes =>
            /\ limiter'.last_call_ts = limiter'.now
            /\ limiter'.now - limiter.last_call_ts >= RATE_LIMIT_INTERVAL
       /\ ~PassCompletes => limiter'.last_call_ts = limiter.last_call_ts]_vars

\* a provider call has been issued, hence a pass completed before, and the
\* flow has just completed a later pass after sleeping in the limiter
C38_Witness ==
    /\ limiter.last_issued >= 0
    /\ limiter.tasks[SoloTask].pc = "jitter"
    /\ limiter.last_call_ts = limiter.now
    /\ limiter.last_call_ts = limiter.last_issued + RATE_LIMIT_INTERVAL
    /\ \A t \in Tasks \ {SoloTask} : limiter.tasks[t].pc = "idle"

====
